---- MODULE Spec2Model ----
(***************************************************************************)
(* The transaction-ingestion / ticket-accounting engine of the BCH         *)
(* prediction backend: the three reconciliation loops                      *)
(* (process_new_transactions_chaingraph, _blockchair, _for_outcome), the   *)
(* background task that starts them, and the tables they read and write    *)
(* (ScoreOutcome.bet_count, ScoreOutcome.last_monitored_tx_hash,           *)
(* RealBetTransaction).  One outcome (one deposit address) is modelled.    *)
(***************************************************************************)
EXTENDS Integers, Sequences, FiniteSets, TLC

(***************************************************************************)
(* Bounds of the model.                                                    *)
(***************************************************************************)
MaxLen      == 2    \* longest candidate list an adapter call returns
MaxPasses   == 3    \* reconciliation passes started in one behaviour
MaxOnce     == 1    \* one-shot Task rows schedule_tasks may leave pending
MaxRuns     == 2    \* runs of monitor_bch_addresses_task over all outcomes
MaxRequests == 2    \* simulate_prediction requests in one behaviour
MaxDeposits == 2    \* deposits that BCHBettingSystem accepts in one behaviour

(***************************************************************************)
(* Python's decimal module, as far as the loops use it: a Decimal is a     *)
(* coefficient (sequence of decimal digits, most significant first) and an *)
(* exponent; a quotient is rounded to DECIMAL_PREC significant digits,     *)
(* ROUND_HALF_EVEN (the default context, which the repository never        *)
(* changes); int() truncates.                                              *)
(***************************************************************************)
DECIMAL_PREC     == 28
BCH_PREC         == 8     \* getcontext().prec that bch_betting sets
SATOSHI_PER_BCH  == 100000000

\* Intermediate results are bound through a singleton set,
\*     CHOOSE r \in {F(v) : v \in {e}} : TRUE     (F applied to the value of e),
\* so that each is computed once.

SetMin(S) == CHOOSE x \in S : \A y \in S : x <= y
SetMax(S) == CHOOSE x \in S : \A y \in S : y <= x

RECURSIVE Digits(_)
Digits(n) == IF n < 10 THEN <<n>> ELSE Append(Digits(n \div 10), n % 10)

\* the number written by the first k digits of s
RECURSIVE FromDigits(_, _)
FromDigits(s, k) == IF k = 0 THEN 0 ELSE 10 * FromDigits(s, k - 1) + s[k]

Zeros(n) == [i \in 1..n |-> 0]

StripV(s) ==
    LET nz == {i \in 1..Len(s) : s[i] # 0}
    IN IF nz = {} THEN <<0>> ELSE SubSeq(s, SetMin(nz), Len(s))

\* s without leading zeros
Strip(s) == CHOOSE r \in {StripV(v) : v \in {s}} : TRUE

\* -1, 0 or 1 as a < b, a = b, a > b (both without leading zeros)
BigCmp(a, b) ==
    IF Len(a) # Len(b) THEN (IF Len(a) < Len(b) THEN -1 ELSE 1)
    ELSE LET diff == {i \in 1..Len(a) : a[i] # b[i]}
         IN IF diff = {} THEN 0
            ELSE IF a[SetMin(diff)] < b[SetMin(diff)] THEN -1 ELSE 1

\* digits of a - bb for a >= bb of equal length; the borrow into digit i is
\* decided by the digits after i
SubDigits(a, bb) ==
    LET n == Len(a)
        Borrow(i) == LET diff == {j \in (i + 1)..n : a[j] # bb[j]}
                     IN diff # {} /\ a[SetMin(diff)] < bb[SetMin(diff)]
    IN [i \in 1..n |-> (a[i] - bb[i] - (IF Borrow(i) THEN 1 ELSE 0) + 10) % 10]

\* a - b for a >= b
BigSub(a, b) ==
    Strip(CHOOSE r \in {SubDigits(a, bb) : bb \in {Zeros(Len(a) - Len(b)) \o b}} : TRUE)

\* digits of aa + bb, of equal length with a leading zero; the carry into
\* digit i is decided by the digits after i
AddDigits(aa, bb) ==
    LET n == Len(aa)
        Carry(i) == LET s == {j \in (i + 1)..n : aa[j] + bb[j] # 9}
                    IN s # {} /\ aa[SetMin(s)] + bb[SetMin(s)] >= 10
    IN [i \in 1..n |-> (aa[i] + bb[i] + (IF Carry(i) THEN 1 ELSE 0)) % 10]

\* a + b
BigAdd(a, b) ==
    LET n == (IF Len(a) > Len(b) THEN Len(a) ELSE Len(b)) + 1
    IN Strip(CHOOSE r \in {AddDigits(aa, bb) : aa \in {Zeros(n - Len(a)) \o a},
                                               bb \in {Zeros(n - Len(b)) \o b}} : TRUE)

\* <<0, b, 2b, ..., 9b>>, from the multiples M found so far
RECURSIVE Multiples(_, _)
Multiples(b, M) ==
    IF Len(M) = 10 THEN M
    ELSE CHOOSE r \in {Multiples(b, N) : N \in {Append(M, BigAdd(M[Len(M)], b))}} : TRUE

\* the digit q with q * b <= R < (q + 1) * b, M the multiples of b
QuotDigit(M, R) ==
    CHOOSE k \in 0..9 : /\ BigCmp(M[k + 1], R) <= 0
                        /\ k < 9 => BigCmp(R, M[k + 2]) < 0

\* one step of long division: st = <<quotient so far, remainder>>, R the
\* remainder with the next digit brought down
DivStepV(M, st, R) ==
    CHOOSE r \in {<<Append(st[1], q), BigSub(R, M[q + 1])>> : q \in {QuotDigit(M, R)}} : TRUE

DivStep(M, st, digit) ==
    CHOOSE r \in {DivStepV(M, st, R) : R \in {Strip(Append(st[2], digit))}} : TRUE

\* long division of num, digits i.. still to bring down
RECURSIVE LongDiv(_, _, _, _)
LongDiv(num, M, i, st) ==
    IF i > Len(num) THEN st
    ELSE CHOOSE r \in {LongDiv(num, M, i + 1, nxt) : nxt \in {DivStep(M, st, num[i])}} : TRUE

\* <<num div b, num mod b>>, b > 0
BigDivMod(num, b) ==
    CHOOSE r \in {<<Strip(st[1]), st[2]>> :
                     st \in {LongDiv(num, Multiples(b, <<(<<0>>)>>), 1, <<(<<0>>), (<<0>>)>>)}} : TRUE

\* Decimal(n) * 10^e for a natural number n
Dec(n, e) == [c |-> Digits(n), e |-> e]

\* an exact quotient is brought towards the ideal exponent
StripTrailing(c, e, ideal) ==
    LET ks == {k \in 0..(Len(c) - 1) :
                  /\ e + k <= ideal
                  /\ \A i \in (Len(c) - k + 1)..Len(c) : c[i] = 0}
    IN IF e >= ideal THEN [c |-> c, e |-> e]
       ELSE [c |-> SubSeq(c, 1, Len(c) - SetMax(ks)), e |-> e + SetMax(ks)]

AllZero(s) == \A i \in 1..Len(s) : s[i] = 0

\* the coefficient kept and its successor, as rounding to prec digits
\* needs them
RoundedV(d, up, kept, prec) ==
    CHOOSE x \in {IF Len(r) > prec
                  THEN [c |-> SubSeq(r, 1, prec),
                        e |-> d.e + Len(d.c) - prec + 1]
                  ELSE [c |-> r, e |-> d.e + Len(d.c) - prec] :
                     r \in {IF up THEN BigAdd(kept, <<1>>) ELSE kept}} : TRUE

FixV(d, prec) ==
    IF Len(d.c) <= prec THEN d
    ELSE LET kept == SubSeq(d.c, 1, prec)
             drop == SubSeq(d.c, prec + 1, Len(d.c))
             up   == \/ drop[1] > 5
                     \/ drop[1] = 5 /\ ~AllZero(Tail(drop))
                     \/ drop[1] = 5 /\ AllZero(Tail(drop)) /\ kept[prec] % 2 = 1
         IN RoundedV(d, up, kept, prec)

\* rounding of a coefficient to a precision of prec digits, ROUND_HALF_EVEN
FixAt(d, prec) == CHOOSE r \in {FixV(v, p) : v \in {d}, p \in {prec}} : TRUE

\* the same at the precision of the default context
Fix(d) == FixAt(d, DECIMAL_PREC)

\* the quotient from <<coefficient, remainder>> of the integer division
Quotient(dm, exp, ideal, prec) ==
    LET coeff == dm[1]
        last  == coeff[Len(coeff)]
    IN IF dm[2] # <<0>>
       THEN FixAt([c |-> IF last % 5 = 0 THEN [coeff EXCEPT ![Len(coeff)] = @ + 1]
                                         ELSE coeff,
                   e |-> exp], prec)
       ELSE FixAt(StripTrailing(coeff, exp, ideal), prec)

DecDivV(x, y, prec) ==
    LET shift == Len(y.c) - Len(x.c) + prec + 1
    IN CHOOSE r \in {Quotient(dm, x.e - y.e - shift, x.e - y.e, prec) :
                        dm \in {BigDivMod(x.c \o Zeros(shift), y.c)}} : TRUE

\* Decimal.__truediv__ in a context of precision prec: x / y for x, y > 0
DecDivAt(x, y, prec) ==
    CHOOSE r \in {DecDivV(u, v, p) : u \in {x}, v \in {y}, p \in {prec}} : TRUE

\* the same in the default context
DecDiv(x, y) == DecDivAt(x, y, DECIMAL_PREC)

DecIntV(d) ==
    IF d.e >= 0 THEN FromDigits(d.c \o Zeros(d.e), Len(d.c) + d.e)
    ELSE IF -d.e >= Len(d.c) THEN 0
    ELSE FromDigits(d.c, Len(d.c) + d.e)

\* int(Decimal): truncation
DecInt(d) == CHOOSE r \in {DecIntV(v) : v \in {d}} : TRUE

DecQuantizeV(d) ==
    IF d.e >= 0 THEN DecIntV(d)
    ELSE LET c    == Zeros(SetMax({0, 1 - d.e - Len(d.c)})) \o d.c
             n    == Len(c) + d.e              \* digits before the point
             whole == FromDigits(c, n)
             drop == SubSeq(c, n + 1, Len(c))
             up   == \/ drop[1] > 5
                     \/ drop[1] = 5 /\ ~AllZero(Tail(drop))
                     \/ drop[1] = 5 /\ AllZero(Tail(drop)) /\ whole % 2 = 1
         IN IF up THEN whole + 1 ELSE whole

\* int(d.quantize(Decimal('1'))): the nearest integer, ROUND_HALF_EVEN
DecQuantize(d) == CHOOSE r \in {DecQuantizeV(v) : v \in {d}} : TRUE

\* n times the coefficient c, n >= 0
RECURSIVE BigTimes(_, _)
BigTimes(c, n) ==
    IF n = 0 THEN <<0>>
    ELSE CHOOSE r \in {BigAdd(m, c) : m \in {BigTimes(c, n - 1)}} : TRUE

\* Decimal.__mul__ by an int in a context of precision prec: the exponent
\* is kept, the coefficient is rounded
DecTimesAt(d, n, prec) ==
    CHOOSE r \in {FixAt([c |-> BigTimes(v, k), e |-> d.e], prec) :
                     v \in {d.c}, k \in {n}} : TRUE

DecAddV(x, y, prec) ==
    LET m == IF x.e < y.e THEN x.e ELSE y.e
    IN FixAt([c |-> BigAdd(Strip(x.c \o Zeros(x.e - m)), Strip(y.c \o Zeros(y.e - m))),
              e |-> m], prec)

\* Decimal.__add__ in a context of precision prec, x, y >= 0; Decimal('0')
\* plus y is y
DecAddAt(x, y, prec) ==
    IF x = Dec(0, 0) THEN y
    ELSE CHOOSE r \in {DecAddV(u, v, p) : u \in {x}, v \in {y}, p \in {prec}} : TRUE

\* x and y are the same number
DecSame(x, y) ==
    LET m == IF x.e < y.e THEN x.e ELSE y.e
    IN Strip(x.c \o Zeros(x.e - m)) = Strip(y.c \o Zeros(y.e - m))

\* f"{d:.8f}" as a number of satoshis: d at 8 decimal places, in the
\* rounding of the context (ROUND_HALF_EVEN)
FormatSatoshi(d) == DecQuantize([c |-> d.c, e |-> d.e + 8])

HalfAwayV(d) ==
    IF d.e >= 0 THEN DecIntV(d)
    ELSE LET c     == Zeros(SetMax({0, 1 - d.e - Len(d.c)})) \o d.c
             n     == Len(c) + d.e
             whole == FromDigits(c, n)
         IN IF c[n + 1] >= 5 THEN whole + 1 ELSE whole

\* d * 10^8 rounded to an integer, ROUND_HALF_UP (half away from zero)
HalfAwaySatoshi(d) ==
    CHOOSE r \in {HalfAwayV(v) : v \in {[c |-> d.c, e |-> d.e + 8]}} : TRUE

(***************************************************************************)
(* The data the loops work on.                                             *)
(***************************************************************************)
Hashes   == {"h1", "h2", "h3"}        \* transaction hashes on the chain
None     == "None"                    \* Python None / SQL NULL
Rates    == {200, 600}                \* BCH/USD rates the price task may fetch
Workers  == {"w1", "w2"}              \* process_tasks worker processes
Loops    == {"generic", "blockchair", "chaingraph"}

\* What a candidate carries as its confirmation marker (height, block_id,
\* block_height): the key is absent, its value is null, 0, or a block height.
\* For the Blockchair loop the marker comes from the per-transaction detail
\* lookup, and "absent" also stands for a lookup that returned nothing.
Markers  == {"absent", "null", "zero", "height"}

\* satoshis the transaction pays to the outcome's address (0: none, or no
\* output to that address)
output_value(tx_hash) ==
    CASE tx_hash = "h1" -> 500000
      [] tx_hash = "h2" -> 300000
      [] OTHER          -> 0

Candidates == [tx_hash : Hashes, confirmation : Markers]

SeqsUpTo(S, n) == UNION {[1..k -> S] : k \in 0..n}

\* what an adapter call returns: nothing (request failed), or a list
Responses ==
    {[ok |-> FALSE, txs |-> <<>>]}
        \cup {[ok |-> TRUE, txs |-> l] : l \in SeqsUpTo(Candidates, MaxLen)}

\* the responses the interleavings of the deployment are studied with: the
\* request fails, or lists confirmed transactions that pay the address
DepositResponses ==
    {r \in Responses :
        \A i \in 1..Len(r.txs) : /\ r.txs[i].confirmation = "height"
                                 /\ output_value(r.txs[i].tx_hash) > 0}

\* the ticket computation of the loops on Decimals
TicketsFor(amount_satoshi, current_bch_usd_rate) ==
    IF current_bch_usd_rate > 0
    THEN LET amount_bch == DecDiv(Dec(amount_satoshi, 0), Dec(SATOSHI_PER_BCH, 0))
             required_bch_per_ticket ==
                 DecDiv(Dec(100, -2), Dec(current_bch_usd_rate, 0))
         IN DecInt(DecDiv(amount_bch, required_bch_per_ticket))
    ELSE 0

\* TicketsFor on the amounts and rates of the model, computed once
ticket_table ==
    [a \in {output_value(h) : h \in Hashes} \ {0}, r \in Rates |-> TicketsFor(a, r)]

\* a ticket computation that rounds any positive amount up to a ticket
TicketsRoundedUp(amount_satoshi, current_bch_usd_rate) ==
    IF amount_satoshi > 0 /\ current_bch_usd_rate > 0
    THEN IF ticket_table[amount_satoshi, current_bch_usd_rate] > 0
         THEN ticket_table[amount_satoshi, current_bch_usd_rate] ELSE 1
    ELSE 0

\* a ticket computation that forgets the test of the rate
TicketsIgnoringRate(amount_satoshi, current_bch_usd_rate) ==
    IF amount_satoshi > 0
    THEN IF current_bch_usd_rate > 0
         THEN ticket_table[amount_satoshi, current_bch_usd_rate] ELSE 1
    ELSE 0

num_tickets(amount_satoshi, current_bch_usd_rate) ==
    IF amount_satoshi > 0 /\ current_bch_usd_rate > 0
    THEN ticket_table[amount_satoshi, current_bch_usd_rate]
    ELSE 0

\* the loops' test "this candidate is unconfirmed"
IsUnconfirmed(loop, marker) ==
    CASE loop = "chaingraph" -> marker \in {"absent", "null"}
      [] loop = "generic"    -> marker \in {"absent", "zero"}
      [] OTHER               -> marker \in {"absent", "null", "zero"}

(***************************************************************************)
(* State.                                                                  *)
(***************************************************************************)
VARIABLES
    bet_count,               \* ScoreOutcome.bet_count, as stored
    last_monitored_tx_hash,  \* ScoreOutcome.last_monitored_tx_hash, as stored
    real_bet_transactions,   \* RealBetTransaction rows, counted per hash
    env_rate,                \* LAST_FETCHED_BCH_USD_RATE of each process; 0: unset
    pass,                    \* each worker's pass in flight, if any
    once_tasks,              \* one-shot monitor Task rows waiting or running
    passes,                  \* passes started so far
    credits,                 \* history: per hash, how often tickets were added
    last_pass,               \* history: the pass that ended last
    events,                  \* 'transaction_update' events sent, counted per hash
    outcomes,                \* ScoreOutcome rows, where several are studied
    ledger,                  \* for them: the outcome of the row of each hash
    run,                     \* the run of monitor_bch_addresses_task
    request,                 \* the simulate_prediction request in progress
    simulated,               \* RealBetTransaction rows with a simulated hash
    bch_rate,                \* <<rate>> of the latest BCHRate row; <<>>: no row
    betting,                 \* BCHBettingSystem: betting_outcomes of a match
    payout,                  \* the last determine_winner_and_payout call
    transactions,            \* RealBetTransaction rows, with their fields
    score_outcomes,          \* the ScoreOutcome rows that exist
    creations,               \* per hash, the rows ever created for it
    compared,                \* the three loops run on one input, and their results
    deposited,               \* the last simulate_deposit call
    task_rows,               \* Task rows in the database, counted per task_name
    starting                 \* each server process: where it is in ApiConfig.ready()

db   == <<bet_count, last_monitored_tx_hash, real_bet_transactions>>
vars == <<bet_count, last_monitored_tx_hash, real_bet_transactions, env_rate,
          pass, once_tasks, passes, credits, last_pass, events,
          outcomes, ledger, run, request, simulated, bch_rate, betting, payout,
          transactions, score_outcomes, creations, compared, deposited,
          task_rows, starting>>

\* the state of the study of one outcome, and of the study of several
pass_vars == <<db, pass, once_tasks, passes, credits, last_pass>>
task_vars == <<outcomes, ledger, run>>
web_vars  == <<request, simulated>>
bet_vars  == <<bch_rate, betting, payout>>
admin_vars == <<transactions, score_outcomes, creations>>
schedule_vars == <<task_rows, starting>>
other_vars == <<compared, deposited, schedule_vars>>

TaskNames == {"api.tasks.update_bch_price_task", "api.tasks.monitor_bch_addresses_task"}
Processes == {"p1", "p2"}          \* server processes that load the app

\* pc: the statement of ready() the process is at; exists: what its last
\* Task.objects.filter(task_name=...).exists() returned; starts: how often
\* the process has been started
NotStarted == [pc |-> "none", exists |-> FALSE, starts |-> 0]

\* known, score: the arguments; ok: the value returned
NoDeposit == [called |-> FALSE, known |-> FALSE, score |-> None, ok |-> FALSE]

Scores == {"1-0", "0-1"}           \* two of the possible_scores of a match
OriginAddresses == {"x", "y"}      \* addresses deposits come from

\* known, score: the arguments; rate: the latest BCHRate before the call;
\* total: total_winning_tickets; ok: the value returned; schedule: the
\* addresses of payouts_to_addresses, each with the tickets it is paid for;
\* current_bch_rate, prize_pool_bch, payout_per_ticket_bch,
\* payouts_to_addresses: the locals of these names (0 and empty where the
\* call does not reach them)
NoPayout ==
    [called |-> FALSE, known |-> FALSE, score |-> None, rate |-> <<>>,
     total |-> 0, ok |-> FALSE, schedule |-> <<>>, current_bch_rate |-> 0,
     prize_pool_bch |-> Dec(0, 0), payout_per_ticket_bch |-> Dec(0, 0),
     payouts_to_addresses |-> <<>>]

\* found: the match and the outcome of the last request exist; status: the
\* HTTP status of the last response; requests: requests so far
IdleRequest ==
    [pc |-> "idle", found |-> FALSE, num_tickets |-> 0,
     outcome |-> [bet_count |-> 0, last_monitored_tx_hash |-> None],
     status |-> 0, requests |-> 0]

Outcomes == {"o1", "o2", "o3"}

IdleRun == [pc |-> "idle", todo |-> <<>>, reconciled |-> <<>>, failed |-> {},
            raised |-> {}, runs |-> 0]

IdlePass ==
    [pc |-> "idle", loop |-> "none", txs |-> <<>>, idx |-> 0, num_tickets |-> 0,
     new_tx_found_for_outcome |-> FALSE, newest_tx_hash_seen |-> None,
     outcome |-> [bet_count |-> 0, last_monitored_tx_hash |-> None],
     task |-> "none", rerun |-> "no", skipped |-> {}, late |-> {},
     first_committed |-> None]

\* result: how the pass ended; skipped: the hashes it skipped as unconfirmed;
\* same_rate: no other rate has been fetched since
NoPass ==
    [loop |-> "none", txs |-> <<>>, result |-> "none", skipped |-> {},
     same_rate |-> TRUE]

Ended(p, result) ==
    [loop |-> p.loop, txs |-> p.txs, result |-> result, skipped |-> p.skipped,
     same_rate |-> TRUE]

Init ==
    /\ bet_count = 0
    /\ last_monitored_tx_hash = None
    /\ real_bet_transactions = [h \in Hashes |-> 0]
    /\ env_rate = [w \in Workers |-> 0]
    /\ pass = [w \in Workers |-> IdlePass]
    /\ once_tasks = 0
    /\ passes = 0
    /\ credits = [h \in Hashes |-> 0]
    /\ last_pass = NoPass
    /\ events = [h \in Hashes |-> 0]
    /\ outcomes = [o \in Outcomes |-> [bet_count |-> 0, last_monitored_tx_hash |-> None]]
    /\ ledger = [h \in Hashes |-> None]
    /\ run = IdleRun
    /\ request = IdleRequest
    /\ simulated = 0
    /\ bch_rate = <<>>
    /\ betting = [s \in Scores |->
                     [total_betted_bch |-> 0, bet_count |-> 0, bets_received |-> <<>>]]
    /\ payout = NoPayout
    /\ transactions = [h \in Hashes |-> <<>>]
    /\ score_outcomes = Outcomes
    /\ creations = [h \in Hashes |-> 0]
    /\ compared = <<>>
    /\ deposited = NoDeposit
    /\ task_rows = [n \in TaskNames |-> 0]
    /\ starting = [p \in Processes |-> NotStarted]

(***************************************************************************)
(* The tests the loops make on the stored state.                           *)
(***************************************************************************)
\* a ledger test that trusts the cursor alone
RecordedMeansCursor(tx_hash) == tx_hash = last_monitored_tx_hash

\* a ledger test that is never made
RecordedNever(tx_hash) == FALSE

\* RealBetTransaction.objects.filter(transaction_hash=tx_hash).exists()
AlreadyRecorded(tx_hash) == real_bet_transactions[tx_hash] > 0

\* unique=True on RealBetTransaction.transaction_hash
UniqueViolation(tx_hash) == real_bet_transactions[tx_hash] > 0

InFlight(w) == pass[w].pc # "idle"

\* a worker locks the Task row it runs; the repeating row is one row
TaskAvailable(task) ==
    CASE task = "repeat" -> \A v \in Workers : pass[v].task # "repeat"
      [] task = "once"   -> once_tasks > Cardinality({v \in Workers : pass[v].task = "once"})
      [] OTHER           -> TRUE

\* a one-shot Task row is deleted when its run ends
TaskDone(task) == IF task = "once" THEN once_tasks - 1 ELSE once_tasks

\* a loop body that commits whatever pays the address, without the test
\* of num_tickets
VerdictWithoutTicketTest(w) ==
    LET p  == pass[w]
        tx == p.txs[p.idx]
    IN IF tx.tx_hash = p.outcome.last_monitored_tx_hash THEN "break"
       ELSE IF AlreadyRecorded(tx.tx_hash) THEN "recorded"
       ELSE IF IsUnconfirmed(p.loop, tx.confirmation) THEN "unconfirmed"
       ELSE IF ~(output_value(tx.tx_hash) > 0) THEN "no_amount"
       ELSE "commit"

\* what the loop body does with the candidate at pass[w].idx
Verdict(w) ==
    LET p  == pass[w]
        tx == p.txs[p.idx]
    IN IF tx.tx_hash = p.outcome.last_monitored_tx_hash THEN "break"
       ELSE IF AlreadyRecorded(tx.tx_hash) THEN "recorded"
       ELSE IF IsUnconfirmed(p.loop, tx.confirmation) THEN "unconfirmed"
       ELSE IF ~(output_value(tx.tx_hash) > 0) THEN "no_amount"
       ELSE IF num_tickets(output_value(tx.tx_hash), env_rate[w]) > 0 THEN "commit"
       ELSE "dust"

\* `continue`, or the end of the list
NextCandidate(p) ==
    IF p.idx < Len(p.txs)
    THEN [p EXCEPT !.pc = "loop", !.idx = @ + 1, !.num_tickets = 0]
    ELSE [p EXCEPT !.pc = "finish", !.num_tickets = 0]

(***************************************************************************)
(* Actions.  `rec` says whether the step keeps the history of passes       *)
(* (last_pass, and rerun, skipped, late, first_committed of a pass); it is *)
(* kept where passes run one at a time.                                    *)
(***************************************************************************)
\* The outcome is loaded and the adapter is asked for its transactions.
BeginPass(w, loop, resp, task, rec) ==
    /\ ~InFlight(w)
    /\ passes < MaxPasses
    /\ TaskAvailable(task)
    /\ passes' = passes + 1
    /\ IF ~resp.ok \/ resp.txs = <<>>
       THEN /\ pass' = pass
            /\ once_tasks' = TaskDone(task)
            /\ last_pass' = IF rec
                            THEN [NoPass EXCEPT !.loop = loop, !.result = "no_data"]
                            ELSE NoPass
       ELSE /\ pass' = [pass EXCEPT ![w] =
                 [pc |-> "loop", loop |-> loop, txs |-> resp.txs, idx |-> 1,
                  num_tickets |-> 0,
                  new_tx_found_for_outcome |-> FALSE,
                  newest_tx_hash_seen |-> last_monitored_tx_hash,
                  outcome |-> [bet_count |-> bet_count,
                               last_monitored_tx_hash |-> last_monitored_tx_hash],
                  task |-> task,
                  rerun |-> IF /\ rec
                               /\ last_pass.result \in {"completed", "notify_failed"}
                               /\ last_pass.loop = loop
                               /\ last_pass.txs = resp.txs
                            THEN (IF last_pass.result = "notify_failed"
                                  THEN (IF last_pass.same_rate THEN "after_failure" ELSE "no")
                                  ELSE (IF last_pass.same_rate THEN "same_rate" ELSE "new_rate"))
                            ELSE "no",
                  skipped |-> {},
                  late |-> IF rec THEN last_pass.skipped ELSE {},
                  first_committed |-> None]]
            /\ once_tasks' = once_tasks
            /\ last_pass' = NoPass
    /\ UNCHANGED <<db, env_rate, credits, events>>
    /\ UNCHANGED <<task_vars, web_vars, bet_vars, admin_vars, other_vars>>

\* One iteration of the loop, up to the decision to commit.
Examine(w, rec) ==
    /\ pass[w].pc = "loop"
    /\ LET p == pass[w]
           v == Verdict(w)
           h == p.txs[p.idx].tx_hash
       IN pass' = [pass EXCEPT ![w] =
              CASE v = "break"  -> [p EXCEPT !.pc = "finish"]
                [] v = "commit" ->
                     [p EXCEPT !.pc = "save",
                               !.num_tickets = num_tickets(output_value(h), env_rate[w])]
                [] v = "unconfirmed" /\ rec ->
                     NextCandidate([p EXCEPT !.skipped = @ \cup {h}])
                [] OTHER        -> NextCandidate(p)]
    /\ UNCHANGED <<db, env_rate, once_tasks, passes, credits, last_pass, events>>
    /\ UNCHANGED <<task_vars, web_vars, bet_vars, admin_vars, other_vars>>

\* outcome.bet_count += num_tickets; outcome.save(): every field of the
\* loaded outcome is written.
Save(w) ==
    /\ pass[w].pc = "save"
    /\ LET p == pass[w]
           h == p.txs[p.idx].tx_hash
       IN /\ bet_count' = p.outcome.bet_count + p.num_tickets
          /\ last_monitored_tx_hash' = p.outcome.last_monitored_tx_hash
          /\ pass' = [pass EXCEPT ![w].pc = "create",
                                  ![w].outcome.bet_count = @ + p.num_tickets]
          /\ credits' = [credits EXCEPT ![h] = @ + 1]
    /\ UNCHANGED <<real_bet_transactions, env_rate, once_tasks, passes, last_pass,
                   events>>
    /\ UNCHANGED <<task_vars, web_vars, bet_vars, admin_vars, other_vars>>

\* rows that are taken back when a later statement of the pass raises
RowsRolledBack(tx_hash, raised) ==
    IF raised THEN real_bet_transactions
    ELSE [real_bet_transactions EXCEPT ![tx_hash] = @ + 1]

\* the rows after the insert of a row for tx_hash: each statement is
\* committed by itself, whether or not a later statement of the pass raises
RowsAfterCreate(tx_hash, raised) ==
    [real_bet_transactions EXCEPT ![tx_hash] = @ + 1]

\* RealBetTransaction.objects.create(...): the row is inserted, or the
\* unique constraint raises IntegrityError, which leaves the loop and the
\* function.  The Blockchair loop then sends the 'transaction_update' event
\* of the candidate; `sent` says whether group_send returned or raised, and
\* what it raises leaves the loop and the function as well.  `heard` says
\* whether the step counts the event in `events`.
Create(w, rec, sent, heard) ==
    /\ pass[w].pc = "create"
    /\ LET p == pass[w]
           h == p.txs[p.idx].tx_hash
           committed == [p EXCEPT !.new_tx_found_for_outcome = TRUE,
                                  !.newest_tx_hash_seen = h,
                                  !.first_committed =
                                      IF rec /\ @ = None THEN h ELSE @]
       IN IF UniqueViolation(h)
          THEN /\ pass' = [pass EXCEPT ![w] = IdlePass]
               /\ once_tasks' = TaskDone(p.task)
               /\ last_pass' = IF rec THEN Ended(p, "error") ELSE NoPass
               /\ UNCHANGED <<real_bet_transactions, events>>
          ELSE /\ real_bet_transactions' =
                      RowsAfterCreate(h, p.loop = "blockchair" /\ ~sent)
               /\ IF p.loop = "blockchair" /\ ~sent
                  THEN /\ pass' = [pass EXCEPT ![w] = IdlePass]
                       /\ once_tasks' = TaskDone(p.task)
                       /\ last_pass' = IF rec THEN Ended(committed, "notify_failed")
                                       ELSE NoPass
                       /\ UNCHANGED events
                  ELSE /\ pass' = [pass EXCEPT ![w] = NextCandidate(committed)]
                       /\ events' = IF p.loop = "blockchair" /\ heard
                                     THEN [events EXCEPT ![h] = @ + 1]
                                     ELSE events
                       /\ UNCHANGED <<once_tasks, last_pass>>
    /\ UNCHANGED <<bet_count, last_monitored_tx_hash, env_rate, passes, credits>>
    /\ UNCHANGED <<task_vars, web_vars, bet_vars, admin_vars, other_vars>>

\* what process_new_transactions_chaingraph returns: it has no return value
processed_txs == None

\* After the loop: the cursor is written if something was committed.  The
\* monitor task then sends one event for each entry of what the loop returned.
Finish(w, rec) ==
    /\ pass[w].pc = "finish"
    /\ LET p == pass[w]
       IN /\ IF /\ p.new_tx_found_for_outcome
                /\ p.newest_tx_hash_seen # p.outcome.last_monitored_tx_hash
             THEN /\ last_monitored_tx_hash' = p.newest_tx_hash_seen
                  /\ bet_count' = p.outcome.bet_count
             ELSE UNCHANGED <<bet_count, last_monitored_tx_hash>>
          /\ pass' = [pass EXCEPT ![w] = IdlePass]
          /\ once_tasks' = TaskDone(p.task)
          /\ last_pass' = IF rec THEN Ended(p, "completed") ELSE NoPass
          /\ events' = IF p.task \in {"repeat", "once"} /\ processed_txs # None
                        THEN [h \in Hashes |->
                                 events[h] + Cardinality({i \in 1..Len(processed_txs) :
                                                 processed_txs[i] = h})]
                        ELSE events
    /\ UNCHANGED <<real_bet_transactions, env_rate, passes, credits>>
    /\ UNCHANGED <<task_vars, web_vars, bet_vars, admin_vars, other_vars>>

\* update_bch_price_task in worker w: a fetched rate is put in the
\* environment of that process.  The BCHRate row the task creates as well
\* is read by no pass; PriceTask of SpecRate keeps it.
RateUpdate(w, bch_usd_rate) ==
    /\ ~InFlight(w)
    /\ env_rate' = [env_rate EXCEPT ![w] = bch_usd_rate]
    /\ last_pass' = IF last_pass.result = "none" THEN last_pass
                    ELSE [last_pass EXCEPT !.same_rate = @ /\ bch_usd_rate = env_rate[w]]
    /\ UNCHANGED <<db, pass, once_tasks, passes, credits, events>>
    /\ UNCHANGED <<task_vars, web_vars, bet_vars, admin_vars, other_vars>>

\* manage.py schedule_tasks: the decorated task function is called, which
\* stores one more Task row.
ScheduleCommand ==
    /\ once_tasks < MaxOnce
    /\ once_tasks' = once_tasks + 1
    /\ UNCHANGED <<db, env_rate, pass, passes, credits, last_pass, events>>
    /\ UNCHANGED <<task_vars, web_vars, bet_vars, admin_vars, other_vars>>

\* A worker process dies in the middle of a pass and is started again: what
\* it had in memory, its environment included, is gone; its Task row stays.
Crash(w) ==
    /\ InFlight(w)
    /\ pass' = [pass EXCEPT ![w] = IdlePass]
    /\ env_rate' = [env_rate EXCEPT ![w] = 0]
    /\ UNCHANGED <<db, once_tasks, passes, credits, last_pass, events>>
    /\ UNCHANGED <<task_vars, web_vars, bet_vars, admin_vars, other_vars>>

(***************************************************************************)
(* Spec: the deployment.  Worker processes run the monitor task (the       *)
(* Chaingraph loop) from the repeating Task row and from one-shot rows,    *)
(* run the price task, and may die.                                        *)
(***************************************************************************)
Next ==
    \/ \E w \in Workers, resp \in DepositResponses, task \in {"repeat", "once"} :
           BeginPass(w, "chaingraph", resp, task, FALSE)
    \/ \E w \in Workers : Examine(w, FALSE)
    \/ \E w \in Workers : Save(w)
    \/ \E w \in Workers : Create(w, FALSE, TRUE, TRUE)
    \/ \E w \in Workers : Finish(w, FALSE)
    \/ \E w \in Workers, r \in Rates : RateUpdate(w, r)
    \/ ScheduleCommand
    \/ \E w \in Workers : Crash(w)

Spec == Init /\ [][Next]_vars

(***************************************************************************)
(* SpecSeq: passes that do not overlap and are not interrupted.  One       *)
(* process calls the loops, any of the three, one call after the other;    *)
(* the channel layer delivers every event, and the events are not counted. *)
(***************************************************************************)
SeqWorker == "w1"

NextSeq ==
    \/ \E loop \in Loops, resp \in Responses :
           BeginPass(SeqWorker, loop, resp, "direct", TRUE)
    \/ Examine(SeqWorker, TRUE)
    \/ Save(SeqWorker)
    \/ Create(SeqWorker, TRUE, TRUE, FALSE)
    \/ Finish(SeqWorker, TRUE)
    \/ \E r \in Rates : RateUpdate(SeqWorker, r)

SpecSeq == Init /\ [][NextSeq]_vars

(***************************************************************************)
(* SpecNotify: the Blockchair loop and the channel layer.  One process     *)
(* calls the loop, one call after the other; group_send may raise, and the *)
(* events that were sent are counted.                                      *)
(***************************************************************************)
NotifyResponses ==
    {r \in Responses :
        \A i \in 1..Len(r.txs) : r.txs[i].confirmation \in {"absent", "height"}}

NextNotify ==
    \/ \E resp \in NotifyResponses :
           BeginPass(SeqWorker, "blockchair", resp, "direct", TRUE)
    \/ Examine(SeqWorker, TRUE)
    \/ Save(SeqWorker)
    \/ \E sent \in BOOLEAN : Create(SeqWorker, TRUE, sent, TRUE)
    \/ Finish(SeqWorker, TRUE)
    \/ \E r \in Rates : RateUpdate(SeqWorker, r)

SpecNotify == Init /\ [][NextNotify]_vars

(***************************************************************************)
(* SpecTask: monitor_bch_addresses_task, run after run in one process,     *)
(* over several outcomes.  o1 and o2 have a BCH address, o3 has none.      *)
(* Transaction h1 pays the address of o1, h3 that of o2, h2 pays both.     *)
(***************************************************************************)
bch_address(o) ==
    CASE o = "o1" -> "a1"
      [] o = "o2" -> "a2"
      [] OTHER    -> None

\* the output_value of the output of the transaction to the address, 0 if
\* it has none
amount_satoshi(tx_hash, address) ==
    CASE address = "a1"                   -> output_value(tx_hash)
      [] address = "a2" /\ tx_hash = "h2" -> output_value("h1")
      [] address = "a2" /\ tx_hash = "h3" -> output_value("h2")
      [] OTHER                            -> 0

\* the outcomes a run goes through when the filter on bch_address is left
\* out
MonitoredWithNull == Outcomes

\* ScoreOutcome.objects.filter(bch_address__isnull=False), in the orders the
\* database may list them
Monitored == {o \in Outcomes : bch_address(o) # None}

MonitoredOrders ==
    {l \in [1..Cardinality(Monitored) -> Monitored] :
        \A i, j \in 1..Len(l) : i # j => l[i] # l[j]}

\* what the adapter call for an outcome does: it returns None ("none"), it
\* raises ("raise"), or it returns transactions that pay the address
TaskResponses(o) ==
    {[kind |-> k, txs |-> <<>>] : k \in {"none", "raise"}}
        \cup {[kind |-> "list", txs |-> l] :
                 l \in SeqsUpTo({c \in Candidates :
                                    /\ c.confirmation \in {"null", "height"}
                                    /\ amount_satoshi(c.tx_hash, bch_address(o)) > 0},
                                MaxLen)}

\* the loop of process_new_transactions_chaingraph on outcome o, from
\* candidate i on; st holds outcome.bet_count, the rows, the loop's
\* new_tx_found_for_outcome and newest_tx_hash_seen, and the rate
RECURSIVE LoopFrom(_, _, _, _, _)
LoopFrom(o, cursor, txs, i, st) ==
    IF i > Len(txs) THEN st
    ELSE LET tx_hash == txs[i].tx_hash
             amount  == amount_satoshi(tx_hash, bch_address(o))
             tickets == num_tickets(amount, st.rate)
         IN IF tx_hash = cursor THEN st
            ELSE IF \/ st.ledger[tx_hash] # None
                    \/ IsUnconfirmed("chaingraph", txs[i].confirmation)
                    \/ ~(amount > 0)
                    \/ ~(tickets > 0)
                 THEN LoopFrom(o, cursor, txs, i + 1, st)
                 ELSE LoopFrom(o, cursor, txs, i + 1,
                               [st EXCEPT !.bet_count = @ + tickets,
                                          !.ledger[tx_hash] = o,
                                          !.new_tx_found_for_outcome = TRUE,
                                          !.newest_tx_hash_seen = tx_hash])

\* process_new_transactions_chaingraph(outcome) on a list of candidates:
\* the outcome and the rows it leaves
Reconciled(o, txs, rate) ==
    LET cursor == outcomes[o].last_monitored_tx_hash
        st == LoopFrom(o, cursor, txs, 1,
                       [bet_count |-> outcomes[o].bet_count, ledger |-> ledger,
                        new_tx_found_for_outcome |-> FALSE,
                        newest_tx_hash_seen |-> cursor, rate |-> rate])
    IN [outcome |-> [bet_count |-> st.bet_count,
                     last_monitored_tx_hash |->
                         IF st.new_tx_found_for_outcome /\ st.newest_tx_hash_seen # cursor
                         THEN st.newest_tx_hash_seen ELSE cursor],
        ledger |-> st.ledger]

\* the calls of SpecTask: those of TaskResponses, and calls in which the
\* pass raises after it has gone through the candidates of txs
\* (Decimal(current_bch_usd_rate_str), fromtimestamp, save and create can
\* raise)
TaskCalls(o) ==
    TaskResponses(o)
        \cup {[kind |-> "raise", txs |-> r.txs] :
                 r \in {t \in TaskResponses(o) : t.kind = "list" /\ t.txs # <<>>}}

\* the outcome and the rows a pass leaves that raises after the candidates
\* of txs: the statements after the loop, which write the cursor, are not
\* reached
ReconciledUntilRaise(o, txs, rate) ==
    LET r == Reconciled(o, txs, rate)
    IN [outcome |-> [r.outcome EXCEPT !.last_monitored_tx_hash =
                                          outcomes[o].last_monitored_tx_hash],
        ledger |-> r.ledger]

\* a run in which an exception ends the whole for loop
RemainingUncaught(todo, kind) == IF kind = "raise" THEN <<>> ELSE Tail(todo)

\* the outcomes left after one iteration of the for loop: try/except
\* Exception is inside the loop
Remaining(todo, kind) == Tail(todo)

TaskBegin(order) ==
    /\ run.pc = "idle"
    /\ run.runs < MaxRuns
    /\ run' = [pc |-> "running", todo |-> order, reconciled |-> <<>>,
               failed |-> {}, raised |-> {}, runs |-> run.runs + 1]
    /\ UNCHANGED <<pass_vars, env_rate, events, outcomes, ledger, web_vars, bet_vars, admin_vars, other_vars>>

\* one iteration of `for outcome in outcomes_to_monitor`
TaskOutcome(o, resp) ==
    /\ run.pc = "running"
    /\ run.todo # <<>>
    /\ o = Head(run.todo)
    /\ LET r == IF resp.kind = "raise"
                THEN ReconciledUntilRaise(o, resp.txs, env_rate[SeqWorker])
                ELSE Reconciled(o, resp.txs, env_rate[SeqWorker])
       IN /\ IF resp.txs # <<>>
             THEN /\ outcomes' = [outcomes EXCEPT ![o] = r.outcome]
                  /\ ledger' = r.ledger
             ELSE UNCHANGED <<outcomes, ledger>>
          /\ events' = IF resp.kind = "list" /\ processed_txs # None
                        THEN [h \in Hashes |->
                                 events[h] + Cardinality({i \in 1..Len(processed_txs) :
                                                 processed_txs[i] = h})]
                        ELSE events
          /\ run' = [run EXCEPT !.todo = Remaining(run.todo, resp.kind),
                                !.reconciled = Append(@, o),
                                !.failed = IF resp.txs # <<>>
                                           THEN @ ELSE @ \cup {o},
                                !.raised = IF resp.kind = "raise"
                                           THEN @ \cup {o} ELSE @]
    /\ UNCHANGED <<pass_vars, env_rate, web_vars, bet_vars, admin_vars, other_vars>>

\* the for loop is over
TaskEnd ==
    /\ run.pc = "running"
    /\ run.todo = <<>>
    /\ run' = [run EXCEPT !.pc = "idle"]
    /\ UNCHANGED <<pass_vars, env_rate, events, outcomes, ledger, web_vars, bet_vars, admin_vars, other_vars>>

NextTask ==
    \/ \E order \in MonitoredOrders : TaskBegin(order)
    \/ \E o \in Monitored : \E resp \in TaskCalls(o) : TaskOutcome(o, resp)
    \/ TaskEnd
    \/ \E r \in Rates : run.pc = "idle" /\ RateUpdate(SeqWorker, r)

SpecTask == Init /\ [][NextTask]_vars

(***************************************************************************)
(* SpecWeb: the web process serves simulate_prediction requests for the    *)
(* outcome, one at a time, while a worker process runs the monitor task    *)
(* and the price task.                                                     *)
(***************************************************************************)
mock_amount_satoshi == 500000

\* The request up to the decision to commit.  `found`: the match and the
\* outcome exist; `rate`: LAST_FETCHED_BCH_USD_RATE in the environment the
\* web process was started with (0: unset).
SimulateBegin(found, rate) ==
    /\ request.pc = "idle"
    /\ request.requests < MaxRequests
    /\ request' =
           IF ~found
           THEN [IdleRequest EXCEPT !.status = 404, !.requests = request.requests + 1]
           ELSE IF num_tickets(mock_amount_satoshi, rate) > 0
           THEN [pc |-> "save", found |-> TRUE,
                 num_tickets |-> num_tickets(mock_amount_satoshi, rate),
                 outcome |-> [bet_count |-> bet_count,
                              last_monitored_tx_hash |-> last_monitored_tx_hash],
                 status |-> 0, requests |-> request.requests + 1]
           ELSE [IdleRequest EXCEPT !.found = TRUE, !.status = 400,
                                    !.requests = request.requests + 1]
    /\ UNCHANGED <<pass_vars, env_rate, events, task_vars, simulated, bet_vars, admin_vars, other_vars>>

\* outcome.bet_count += num_tickets; outcome.save(): every field of the
\* loaded outcome is written.
SimulateSave ==
    /\ request.pc = "save"
    /\ bet_count' = request.outcome.bet_count + request.num_tickets
    /\ last_monitored_tx_hash' = request.outcome.last_monitored_tx_hash
    /\ request' = [request EXCEPT !.pc = "create",
                                  !.outcome.bet_count = @ + request.num_tickets]
    /\ UNCHANGED <<real_bet_transactions, env_rate, pass, once_tasks, passes,
                   credits, last_pass, events, task_vars, simulated, bet_vars, admin_vars, other_vars>>

\* RealBetTransaction.objects.create(...) under a fresh simulated hash, and
\* the response.
SimulateCreate ==
    /\ request.pc = "create"
    /\ simulated' = simulated + 1
    /\ request' = [IdleRequest EXCEPT !.found = TRUE, !.status = 200,
                                      !.requests = request.requests]
    /\ UNCHANGED <<pass_vars, env_rate, events, task_vars, bet_vars, admin_vars, other_vars>>

NextWeb ==
    \/ \E resp \in DepositResponses :
           BeginPass(SeqWorker, "chaingraph", resp, "repeat", FALSE)
    \/ Examine(SeqWorker, FALSE)
    \/ Save(SeqWorker)
    \/ Create(SeqWorker, FALSE, TRUE, TRUE)
    \/ Finish(SeqWorker, FALSE)
    \/ \E r \in Rates : RateUpdate(SeqWorker, r)
    \/ \E found \in BOOLEAN, rate \in {0} \cup Rates : SimulateBegin(found, rate)
    \/ SimulateSave
    \/ SimulateCreate

SpecWeb == Init /\ [][NextWeb]_vars

(***************************************************************************)
(* SpecBet: BCHBettingSystem (bch_betting.py), an in-memory betting system *)
(* of its own, on one of the matches it creates at construction.  Amounts  *)
(* are in satoshis; its Decimals are computed at BCH_PREC digits.          *)
(***************************************************************************)
fixed_prize_pool_usd == Dec(5000, -2)     \* Decimal('50.00')
ticket_value_usd     == Dec(100, -2)      \* Decimal('1.00')

BetRates       == {-1, 0, 250, 600}   \* rates a BCHRate row may hold
DepositAmounts == {200000, 800000}    \* deposited_bch_amount * 10^8

\* (deposited_bch_amount / required_bch_for_ticket).quantize(Decimal('1'))
DepositTicketsFor(deposit, rate) ==
    LET required_bch_for_ticket == DecDivAt(ticket_value_usd, Dec(rate, 0), BCH_PREC)
    IN DecQuantize(DecDivAt(Dec(deposit, -8), required_bch_for_ticket, BCH_PREC))

deposit_table ==
    [a \in DepositAmounts, r \in {x \in BetRates : x > 0} |-> DepositTicketsFor(a, r)]

\* get_bch_usd_rate(): the latest BCHRate; if there is none, a rate is
\* fetched and stored (fetched = <<>>: the fetch failed) and read again.
\* The rows after the call, and the value returned.
RateStored(fetched) == IF bch_rate # <<>> THEN bch_rate ELSE fetched

get_bch_usd_rate(fetched) ==
    IF RateStored(fetched) = <<>> THEN 0 ELSE RateStored(fetched)[1]

\* the addresses of the bets of an outcome, each with the sum of the
\* num_tickets of its bets: what payouts_to_addresses is built from
RECURSIVE TicketsOf(_, _, _)
TicketsOf(bets_received, address, i) ==
    IF i > Len(bets_received) THEN 0
    ELSE (IF bets_received[i].origin_address = address
          THEN bets_received[i].num_tickets ELSE 0)
         + TicketsOf(bets_received, address, i + 1)

Grouped(bets_received) ==
    [a \in {bets_received[i].origin_address : i \in 1..Len(bets_received)} |->
        TicketsOf(bets_received, a, 1)]

\* payouts_to_addresses after the loop over the bets i.. of bets_received:
\* payouts_to_addresses.get(address, Decimal('0'))
\*     + (payout_per_ticket_bch * num_tickets)
RECURSIVE Accumulated(_, _, _, _)
Accumulated(bets_received, per_ticket, i, acc) ==
    IF i > Len(bets_received) THEN acc
    ELSE LET address == bets_received[i].origin_address
             had     == IF address \in DOMAIN acc THEN acc[address] ELSE Dec(0, 0)
         IN CHOOSE r \in
              {Accumulated(bets_received, per_ticket, i + 1,
                           [a \in DOMAIN acc \cup {address} |->
                               IF a = address THEN paid ELSE acc[a]]) :
                 paid \in {DecAddAt(had,
                                    DecTimesAt(per_ticket,
                                               bets_received[i].num_tickets,
                                               BCH_PREC),
                                    BCH_PREC)}} : TRUE

\* prize_pool_bch = fixed_prize_pool_usd / current_bch_rate
prize_pool_table ==
    [r \in {x \in BetRates : x > 0} |->
        DecDivAt(fixed_prize_pool_usd, Dec(r, 0), BCH_PREC)]

\* the most tickets an outcome can hold
MostTickets ==
    MaxDeposits * SetMax({deposit_table[a, r] :
                             a \in DepositAmounts, r \in {x \in BetRates : x > 0}})

\* payout_per_ticket_bch = prize_pool_bch / total_winning_tickets
per_ticket_table ==
    [r \in {x \in BetRates : x > 0}, total \in 1..MostTickets |->
        DecDivAt(prize_pool_table[r], Dec(total, 0), BCH_PREC)]

\* the prize pool at a rate > 0, and what the winning tickets get of it
Distributed(rate, total, bets_received) ==
    [prize_pool_bch |-> prize_pool_table[rate],
     payout_per_ticket_bch |-> per_ticket_table[rate, total],
     payouts_to_addresses |->
         Accumulated(bets_received, per_ticket_table[rate, total], 1, <<>>)]

\* the call has returned before it computes anything
Returned(known, score, total, ok) ==
    [NoPayout EXCEPT !.called = TRUE, !.known = known, !.score = score,
                     !.rate = bch_rate, !.total = total, !.ok = ok]

\* the call has run to its end
Completed(score, rate) ==
    CHOOSE r \in
      {[called |-> TRUE, known |-> TRUE, score |-> score, rate |-> bch_rate,
        total |-> betting[score].bet_count, ok |-> TRUE,
        schedule |-> Grouped(betting[score].bets_received),
        current_bch_rate |-> rate,
        prize_pool_bch |-> d.prize_pool_bch,
        payout_per_ticket_bch |-> d.payout_per_ticket_bch,
        payouts_to_addresses |-> d.payouts_to_addresses] :
          d \in {Distributed(rate, betting[score].bet_count,
                             betting[score].bets_received)}} : TRUE

\* a payout that tests the rate before it looks at the tickets
PayoutRateFirst(known, score, fetched) ==
    IF ~known \/ score \notin Scores
    THEN Returned(known, score, 0, FALSE)
    ELSE IF get_bch_usd_rate(fetched) <= 0
    THEN Returned(known, score, betting[score].bet_count, FALSE)
    ELSE IF betting[score].bet_count = 0
    THEN Returned(known, score, 0, TRUE)
    ELSE Completed(score, get_bch_usd_rate(fetched))

\* a payout that takes a score the match does not list for an outcome
\* nobody bet on
PayoutUnlisted(known, score, fetched) ==
    IF ~known
    THEN Returned(known, score, 0, FALSE)
    ELSE IF score \notin Scores \/ betting[score].bet_count = 0
    THEN Returned(known, score, 0, TRUE)
    ELSE IF get_bch_usd_rate(fetched) <= 0
    THEN Returned(known, score, betting[score].bet_count, FALSE)
    ELSE Completed(score, get_bch_usd_rate(fetched))

\* determine_winner_and_payout(match_id, winning_score_str): what it
\* returns and what it has computed
Payout(known, score, fetched) ==
    IF ~known \/ score \notin Scores
    THEN Returned(known, score, 0, FALSE)
    ELSE IF betting[score].bet_count = 0
    THEN Returned(known, score, 0, TRUE)
    ELSE IF get_bch_usd_rate(fetched) <= 0
    THEN Returned(known, score, betting[score].bet_count, FALSE)
    ELSE Completed(score, get_bch_usd_rate(fetched))

\* BCHRate.objects.create(rate=...): update_bch_usd_rate, the price task,
\* the admin
RateCreate(rate) ==
    /\ bch_rate' = <<rate>>
    /\ UNCHANGED <<pass_vars, env_rate, events, task_vars, web_vars, betting, payout,
                   admin_vars, other_vars>>

\* simulate_deposit returns True: the match and the outcome are known, the
\* rate is positive and the deposit is worth a ticket
DepositAccepted(known, score, deposit, fetched) ==
    /\ known
    /\ score \in Scores
    /\ get_bch_usd_rate(fetched) > 0
    /\ deposit_table[deposit, get_bch_usd_rate(fetched)] >= 1

\* betting_outcomes that count the amount of a deposit before the test of
\* its tickets
BettingCountingDust(known, score, origin_address, deposit, fetched) ==
    IF known /\ score \in Scores /\ get_bch_usd_rate(fetched) > 0
    THEN LET tickets == deposit_table[deposit, get_bch_usd_rate(fetched)]
         IN IF tickets < 1
            THEN [betting EXCEPT ![score].total_betted_bch = @ + deposit]
            ELSE [betting EXCEPT
                     ![score].total_betted_bch = @ + deposit,
                     ![score].bet_count = @ + tickets,
                     ![score].bets_received =
                         Append(@, [origin_address |-> origin_address,
                                    amount_bch |-> deposit,
                                    num_tickets |-> tickets])]
    ELSE betting

\* betting_outcomes after simulate_deposit
BettingAfterDeposit(known, score, origin_address, deposit, fetched) ==
    IF ~known \/ score \notin Scores THEN betting
    ELSE IF get_bch_usd_rate(fetched) <= 0 THEN betting
    ELSE LET tickets == deposit_table[deposit, get_bch_usd_rate(fetched)]
         IN IF tickets < 1 THEN betting
            ELSE [betting EXCEPT
                     ![score].total_betted_bch = @ + deposit,
                     ![score].bet_count = @ + tickets,
                     ![score].bets_received =
                         Append(@, [origin_address |-> origin_address,
                                    amount_bch |-> deposit,
                                    num_tickets |-> tickets])]

\* simulate_deposit(match_id, score_outcome_id, origin_address,
\* deposited_bch_amount)
SimulateDeposit(known, score, origin_address, deposit, fetched) ==
    /\ Len(betting["1-0"].bets_received) + Len(betting["0-1"].bets_received)
           < MaxDeposits
    /\ bch_rate' = IF ~known \/ score \notin Scores THEN bch_rate
                   ELSE RateStored(fetched)
    /\ betting' = BettingAfterDeposit(known, score, origin_address, deposit, fetched)
    /\ deposited' = [called |-> TRUE, known |-> known, score |-> score,
                     ok |-> DepositAccepted(known, score, deposit, fetched)]
    /\ UNCHANGED <<pass_vars, env_rate, events, task_vars, web_vars, payout,
                   admin_vars, compared, schedule_vars>>

\* self.bets[match_id]: the bets of the match by score_outcome_id;
\* simulate_deposit stores each bet here and in bets_received
bets == [s \in Scores |-> betting[s].bets_received]

\* a payout that closes the outcome it has paid
BettingPaidOut(known, score) ==
    IF known /\ score \in Scores
    THEN [betting EXCEPT ![score] =
             [total_betted_bch |-> 0, bet_count |-> 0, bets_received |-> <<>>]]
    ELSE betting

\* betting_outcomes after determine_winner_and_payout: the call only reads
\* them
BettingAfterPayout(known, score) == betting

DetermineWinnerAndPayout(known, score, fetched) ==
    /\ payout' = Payout(known, score, fetched)
    /\ bch_rate' = IF known /\ score \in Scores /\ betting[score].bet_count # 0
                   THEN RateStored(fetched) ELSE bch_rate
    /\ betting' = BettingAfterPayout(known, score)
    /\ UNCHANGED <<pass_vars, env_rate, events, task_vars, web_vars, admin_vars, other_vars>>

NextBet ==
    \/ \E rate \in BetRates : RateCreate(rate)
    \/ \E known \in BOOLEAN, score \in Scores \cup {"9-9"},
          origin_address \in OriginAddresses, deposit \in DepositAmounts,
          fetched \in {<<>>, <<250>>} :
           SimulateDeposit(known, score, origin_address, deposit, fetched)
    \/ \E known \in BOOLEAN, score \in Scores \cup {"9-9"}, fetched \in {<<>>, <<250>>} :
           DetermineWinnerAndPayout(known, score, fetched)

SpecBet == Init /\ [][NextBet]_vars

(***************************************************************************)
(* SpecLookup: the two operations that look a match and an outcome up by   *)
(* the ids of a request, simulate_prediction of the web process and        *)
(* determine_winner_and_payout of a BCHBettingSystem, each next to the     *)
(* operations that fill what it looks into.                                *)
(***************************************************************************)
NextLookup ==
    \/ \E found \in BOOLEAN, rate \in {0, 200} : SimulateBegin(found, rate)
    \/ SimulateSave
    \/ SimulateCreate
    \/ \E rate \in {0, 250} : RateCreate(rate)
    \/ \E known \in BOOLEAN, score \in Scores \cup {"9-9"} :
           SimulateDeposit(known, score, "x", 800000, <<250>>)
    \/ \E known \in BOOLEAN, score \in Scores \cup {"9-9"}, fetched \in {<<>>, <<250>>} :
           DetermineWinnerAndPayout(known, score, fetched)

SpecLookup == Init /\ [][NextLookup]_vars

(***************************************************************************)
(* What the properties below speak of.                                     *)
(***************************************************************************)
\* the amount is worth at least one 1.00 USD ticket at the rate, exactly:
\* amount_satoshi / 10^8 * rate >= 1
WorthATicket(tx_hash, rate) == output_value(tx_hash) * rate >= SATOSHI_PER_BCH

\* the candidate worker w is at
Current(w) == pass[w].txs[pass[w].idx]

(***************************************************************************)
(* C1 - Exactly-once crediting.  After any sequence of non-overlapping,    *)
(* uninterrupted passes, whatever lists the adapter returned, every hash   *)
(* has at most one RealBetTransaction row and its tickets were added to    *)
(* bet_count at most once.                                                 *)
(***************************************************************************)
C1_ExactlyOnce ==
    \A h \in Hashes : real_bet_transactions[h] <= 1 /\ credits[h] <= 1

\* a later pass has gone past a hash that an earlier pass committed, and has
\* added nothing for it
C1_Witness ==
    LET p == pass[SeqWorker]
    IN /\ passes >= 2
       /\ p.pc = "loop" /\ p.idx = 2
       /\ ~p.new_tx_found_for_outcome
       /\ p.txs[1].confirmation = "height"
       /\ p.txs[1].tx_hash # p.outcome.last_monitored_tx_hash
       /\ real_bet_transactions[p.txs[1].tx_hash] = 1
       /\ credits[p.txs[1].tx_hash] = 1
       /\ bet_count = p.outcome.bet_count

(***************************************************************************)
(* C2 - Idempotence.  As stated: a pass that directly follows a completed  *)
(* pass of the same loop and is given the same candidate list changes      *)
(* neither bet_count, nor the rows, nor the cursor.                        *)
(***************************************************************************)
C2_Idempotent ==
    [][pass[SeqWorker].rerun # "no" => UNCHANGED db]_vars

(***************************************************************************)
(* C2, amended - the same, for two passes between which no other BCH/USD   *)
(* rate was fetched.                                                       *)
(***************************************************************************)
C2_IdempotentSameRate ==
    [][pass[SeqWorker].rerun = "same_rate" => UNCHANGED db]_vars

\* the second of two such passes has gone through its list, the first one
\* having committed something
C2_Witness ==
    LET p == pass[SeqWorker]
    IN /\ p.rerun = "same_rate"
       /\ p.pc = "finish"
       /\ bet_count > 0
       /\ \E i \in 1..Len(p.txs) : real_bet_transactions[p.txs[i].tx_hash] = 1

(***************************************************************************)
(* C3 - Atomic commit.  Whenever no pass is in flight (so also after a     *)
(* crash or a rejected insert), tickets were added for a hash exactly as   *)
(* often as the hash has rows.                                             *)
(***************************************************************************)
C3_AtomicCommit ==
    (\A w \in Workers : ~InFlight(w))
        => \A h \in Hashes : credits[h] = real_bet_transactions[h]

(***************************************************************************)
(* C4 - At most one pass on the outcome is in flight at any time.          *)
(***************************************************************************)
C4_OnePassInFlight ==
    Cardinality({w \in Workers : InFlight(w)}) <= 1

(***************************************************************************)
(* C5 - A rejected insert is a benign skip.  When the insert of a          *)
(* candidate's row is rejected because the hash is already recorded,       *)
(* bet_count has not been increased for that candidate and the pass goes   *)
(* on (to the next candidate, or to the end of the list).                  *)
(***************************************************************************)
C5_DuplicateIsBenignSkip ==
    [][\A w \in Workers :
          (/\ pass[w].pc = "create"
           /\ UniqueViolation(Current(w).tx_hash)
           /\ pass'[w] # pass[w]
           /\ env_rate'[w] = env_rate[w])       \* the insert, not a crash
              => /\ pass'[w].pc \in {"loop", "finish"}
                 /\ credits[Current(w).tx_hash]
                        <= real_bet_transactions[Current(w).tx_hash]]_vars

C7_LedgerAuthoritative ==
    \A w \in Workers :
        pass[w].pc = "finish" =>
            \A i \in 1..Len(pass[w].txs) :
                (/\ pass[w].txs[i].confirmation = "height"
                 /\ WorthATicket(pass[w].txs[i].tx_hash, env_rate[w]))
                    => real_bet_transactions[pass[w].txs[i].tx_hash] > 0

(***************************************************************************)
(* C8 - Unconfirmed exclusion.  In all three loops, a candidate whose      *)
(* confirmation marker is missing, null or zero is never committed.        *)
(***************************************************************************)
C8_UnconfirmedNeverCommitted ==
    \A w \in Workers :
        pass[w].pc \in {"save", "create"} => Current(w).confirmation = "height"

(***************************************************************************)
(* C9 - Late confirmation.  A candidate that the previous pass skipped as  *)
(* unconfirmed and that this pass is given as confirmed and worth at least *)
(* one ticket is in the ledger when the loop of this pass is over.         *)
(***************************************************************************)
C9_LateConfirmationCredited ==
    \A w \in Workers :
        pass[w].pc = "finish" =>
            \A i \in 1..Len(pass[w].txs) :
                (/\ pass[w].txs[i].tx_hash \in pass[w].late
                 /\ pass[w].txs[i].confirmation = "height"
                 /\ WorthATicket(pass[w].txs[i].tx_hash, env_rate[w]))
                    => real_bet_transactions[pass[w].txs[i].tx_hash] > 0

(***************************************************************************)
(* C10 - Dust rejection.  The iteration on a confirmed candidate whose     *)
(* amount is worth less than one ticket at the current rate (or is <= 0)   *)
(* changes neither bet_count nor the rows, does not lead to a commit, and  *)
(* leaves what the pass will write to the cursor as it was.                *)
(***************************************************************************)
C10_DustRejected ==
    [][\A w \in Workers :
          (/\ pass[w].pc = "loop"
           /\ pass'[w] # pass[w]
           /\ Current(w).confirmation = "height"
           /\ ~WorthATicket(Current(w).tx_hash, env_rate[w]))
              => /\ UNCHANGED db
                 /\ pass'[w].pc \in {"loop", "finish"}
                 /\ pass'[w].new_tx_found_for_outcome = pass[w].new_tx_found_for_outcome
                 /\ pass'[w].newest_tx_hash_seen = pass[w].newest_tx_hash_seen]_vars

\* a pass with a rate has gone past a confirmed deposit that is worth less
\* than a ticket, and nothing was written
C10_Witness ==
    LET p == pass[SeqWorker]
    IN /\ p.pc = "loop" /\ p.idx = 2
       /\ env_rate[SeqWorker] > 0
       /\ p.txs[1].confirmation = "height"
       /\ output_value(p.txs[1].tx_hash) > 0
       /\ ~WorthATicket(p.txs[1].tx_hash, env_rate[SeqWorker])
       /\ p.txs[1].tx_hash # p.outcome.last_monitored_tx_hash
       /\ real_bet_transactions[p.txs[1].tx_hash] = 0
       /\ ~p.new_tx_found_for_outcome
       /\ bet_count = p.outcome.bet_count

(***************************************************************************)
(* C11 - Ticket floor.  The tickets that a loop is about to credit for a   *)
(* candidate are floor(amount_satoshi / 100,000,000 * rate), the whole     *)
(* number of 1.00 USD tickets that the amount is worth at the rate.        *)
(***************************************************************************)
C11_TicketsAreExactFloor ==
    \A w \in Workers :
        pass[w].pc \in {"save", "create"} =>
            pass[w].num_tickets =
                (output_value(Current(w).tx_hash) * env_rate[w]) \div SATOSHI_PER_BCH

(***************************************************************************)
(* C12 - Cursor update.  When a pass ends, the stored cursor is the hash   *)
(* of the first candidate, in the order of the adapter's list, that the    *)
(* pass committed; if the pass committed nothing the cursor is as it was.  *)
(***************************************************************************)
C12_CursorIsNewestCommitted ==
    [][(pass[SeqWorker].pc = "finish" /\ pass'[SeqWorker].pc = "idle")
          => IF pass[SeqWorker].first_committed # None
             THEN last_monitored_tx_hash' = pass[SeqWorker].first_committed
             ELSE UNCHANGED last_monitored_tx_hash]_vars

(***************************************************************************)
(* C13 - Monotonic high-water mark.  The chain order of the transactions   *)
(* is h1, h2, h3, oldest first.  No step of a pass whose list is in the    *)
(* adapter's order (newest first) moves the stored cursor from a           *)
(* transaction to an older one, or from a transaction back to null.        *)
(***************************************************************************)
chain_position(tx_hash) ==
    CASE tx_hash = "h1" -> 1
      [] tx_hash = "h2" -> 2
      [] OTHER          -> 3

\* order_by: { block_height: desc, transaction_index: desc }
NewestFirst(txs) ==
    \A i, j \in 1..Len(txs) :
        i < j => chain_position(txs[i].tx_hash) > chain_position(txs[j].tx_hash)

C13_CursorMonotonic ==
    [][\A w \in Workers :
          (/\ pass'[w] # pass[w]
           /\ NewestFirst(pass[w].txs)
           /\ last_monitored_tx_hash # None)
              => /\ last_monitored_tx_hash' # None
                 /\ chain_position(last_monitored_tx_hash')
                        >= chain_position(last_monitored_tx_hash)]_vars

(***************************************************************************)
(* C14 - Adapter failure isolation.  The iteration of the monitor task on  *)
(* an outcome whose adapter call fails (returns nothing, raises, or        *)
(* returns an empty list) changes no outcome and no row, and the run goes  *)
(* on with the outcomes that are left; when a run is over, every outcome   *)
(* that has an address has had its pass.                                   *)
(***************************************************************************)
C14_AdapterFailureIsolated ==
    /\ [][\A o \in Monitored :
             (/\ run.pc = "running" /\ run.todo # <<>> /\ Head(run.todo) = o
              /\ o \in run'.failed)
                 => /\ outcomes' = outcomes
                    /\ ledger' = ledger
                    /\ run'.pc = "running"
                    /\ run'.todo = Tail(run.todo)]_vars
    /\ []((run.pc = "idle" /\ run.runs > 0)
             => {run.reconciled[i] : i \in 1..Len(run.reconciled)} = Monitored)

\* a run is over in which the adapter call of the first outcome failed and
\* the pass of the second outcome committed a transaction
C14_Witness ==
    /\ run.pc = "idle" /\ run.runs = 1
    /\ Len(run.reconciled) = 2
    /\ run.failed = {run.reconciled[1]}
    /\ outcomes[run.reconciled[1]].bet_count = 0
    /\ outcomes[run.reconciled[2]].bet_count > 0
    /\ \E h \in Hashes : ledger[h] = run.reconciled[2]

(***************************************************************************)
(* C15 - One notification per commit.  Between the iterations of the       *)
(* monitor task, exactly one 'transaction_update' event has been sent for  *)
(* every hash that has a row, and none for a hash that has no row.         *)
(***************************************************************************)
C15_OneEventPerCommit ==
    \A h \in Hashes : events[h] = IF ledger[h] # None THEN 1 ELSE 0

(***************************************************************************)
(* C16 - Notification loss never loses the record.  In the Blockchair      *)
(* loop, when group_send raises for a candidate that was just committed,   *)
(* the row of the candidate and the tickets added for it are stored; rows  *)
(* and tickets are never taken back afterwards; no hash is ever credited   *)
(* twice; and when the next pass, given the same list at the same rate,    *)
(* has ended its loop, every candidate it went through that is confirmed   *)
(* and worth a ticket has its row and was credited once.                   *)
(***************************************************************************)
C16_NotificationLossKeepsRecord ==
    /\ [][(pass[SeqWorker].pc = "create" /\ last_pass'.result = "notify_failed")
             => /\ real_bet_transactions'[Current(SeqWorker).tx_hash] = 1
                /\ credits'[Current(SeqWorker).tx_hash] = 1
                /\ bet_count' = pass[SeqWorker].outcome.bet_count]_vars
    /\ [][/\ bet_count' >= bet_count
          /\ \A h \in Hashes : real_bet_transactions'[h] >= real_bet_transactions[h]]_vars
    /\ [](\A h \in Hashes : credits[h] <= 1 /\ real_bet_transactions[h] <= 1)
    /\ [](LET p == pass[SeqWorker]
          IN (p.rerun = "after_failure" /\ p.pc = "finish")
                => \A i \in 1..p.idx :
                       (/\ p.txs[i].tx_hash # p.outcome.last_monitored_tx_hash
                        /\ p.txs[i].confirmation = "height"
                        /\ WorthATicket(p.txs[i].tx_hash, env_rate[SeqWorker]))
                           => /\ real_bet_transactions[p.txs[i].tx_hash] = 1
                              /\ credits[p.txs[i].tx_hash] = 1)

\* the pass after a pass that ended when the event of its first candidate
\* could not be sent has committed the second candidate of the same list
C16_Witness ==
    LET p == pass[SeqWorker]
    IN /\ p.rerun = "after_failure" /\ p.pc = "finish"
       /\ Len(p.txs) = 2 /\ p.txs[1].tx_hash # p.txs[2].tx_hash
       /\ events[p.txs[1].tx_hash] = 0
       /\ real_bet_transactions[p.txs[1].tx_hash] = 1
       /\ credits[p.txs[1].tx_hash] = 1
       /\ p.first_committed = p.txs[2].tx_hash
       /\ real_bet_transactions[p.txs[2].tx_hash] = 1
       /\ events[p.txs[2].tx_hash] = 1

(***************************************************************************)
(* C17 - bet_count is a non-negative integer and no step decreases it,     *)
(* however the steps of a reconciliation pass and of simulate_prediction   *)
(* requests on the outcome interleave.                                     *)
(***************************************************************************)
C17_BetCountNeverDecreases ==
    /\ [](bet_count \in Nat)
    /\ [][bet_count' >= bet_count]_vars

(***************************************************************************)
(* C18 - Only the reconciliation engine writes the ticket count and the    *)
(* cursor: no step of a simulate_prediction request changes bet_count or   *)
(* last_monitored_tx_hash.                                                 *)
(***************************************************************************)
C18_OnlyTheEngineWrites ==
    [][request' # request => UNCHANGED <<bet_count, last_monitored_tx_hash>>]_vars

\* C19: whenever the current rate is <= 0, determine_winner_and_payout
\* reports failure and computes no payout, whatever the number of winning
\* tickets, zero included.  The last call, made for a match and a score
\* that exist while the latest BCHRate was not positive, has returned
\* False with an empty schedule.
C19_PayoutFailsOnUnusableRate ==
    (/\ payout.called /\ payout.known /\ payout.score \in Scores
     /\ payout.rate # <<>> /\ payout.rate[1] <= 0)
        => (~payout.ok /\ payout.schedule = <<>>)

\* C20: when the winning outcome holds zero tickets the payout computation
\* succeeds with an empty payout schedule: the last call, made for a match
\* and a score that exist while the outcome of that score had a bet_count
\* of zero, has returned True and has paid nobody, whatever the rate was.
C20_NoDistributionOnZeroWinners ==
    (/\ payout.called /\ payout.known /\ payout.score \in Scores
     /\ payout.total = 0)
        => (payout.ok /\ payout.schedule = <<>>)

\* a call for a score nobody bet on, while the other score holds tickets
\* and the latest rate is not usable
C20_Witness ==
    /\ payout.called /\ payout.known /\ payout.score = "1-0"
    /\ payout.total = 0 /\ payout.ok /\ payout.schedule = <<>>
    /\ payout.rate # <<>> /\ payout.rate[1] <= 0
    /\ betting["1-0"].bet_count = 0
    /\ betting["0-1"].bet_count > 0

\* C21: the payout schedule has exactly one line per distinct originating
\* address that has a bet on the winning outcome, and the amount of the
\* line is payout_per_ticket times the sum of the tickets of all the bets
\* of the address on that outcome (the product as the code's Decimal
\* context computes it).
C21_PayoutGroupedAndProportional ==
    (payout.called /\ payout.ok /\ payout.total > 0) =>
        /\ DOMAIN payout.payouts_to_addresses = DOMAIN payout.schedule
        /\ \A a \in DOMAIN payout.schedule :
               DecSame(payout.payouts_to_addresses[a],
                       DecTimesAt(payout.payout_per_ticket_bch,
                                  payout.schedule[a], BCH_PREC))

\* fixed_prize_pool_usd / current_rate in satoshis, exactly: its integer
\* part, and whether it has a fraction
PrizePoolFloor(rate) ==
    (50000000 \div rate) * 100 + ((50000000 % rate) * 100) \div rate

PrizePoolFraction(rate) == ((50000000 % rate) * 100) % rate # 0

\* the sum of the payouts of the addresses S, each at 8 decimal places
RECURSIVE SumPaid(_, _)
SumPaid(amounts, S) ==
    IF S = {} THEN 0
    ELSE LET a == CHOOSE x \in S : TRUE
         IN FormatSatoshi(amounts[a]) + SumPaid(amounts, S \ {a})

\* C22: for a winning outcome with N >= 1 tickets, the sum of the payouts,
\* each quantized to 8 decimal places, differs from fixed_prize_pool_usd /
\* current_rate by at most N satoshis, and each payout at 8 decimal places
\* is the amount rounded half away from zero.
C22_PayoutConservation ==
    (payout.called /\ payout.ok /\ payout.total >= 1) =>
        LET paid == SumPaid(payout.payouts_to_addresses,
                            DOMAIN payout.payouts_to_addresses)
            pool == PrizePoolFloor(payout.current_bch_rate)
            more == IF PrizePoolFraction(payout.current_bch_rate) THEN 1 ELSE 0
        IN /\ paid >= pool + more - payout.total
           /\ paid <= pool + payout.total
           /\ \A a \in DOMAIN payout.payouts_to_addresses :
                  FormatSatoshi(payout.payouts_to_addresses[a])
                      = HalfAwaySatoshi(payout.payouts_to_addresses[a])

\* C23: the payout computation is pure: a call of
\* determine_winner_and_payout, whether it returns True or False, leaves
\* every outcome's bet_count, total_betted_bch and bets_received, and the
\* bets of the match, as they were.
C23_PayoutIsPure ==
    [][payout' # payout => (betting' = betting /\ bets' = bets)]_vars

\* a payout has been computed for an outcome that still holds the bets it
\* was computed from
C23_Witness ==
    /\ payout.called /\ payout.ok /\ payout.total > 0
    /\ payout.payouts_to_addresses # <<>>
    /\ betting[payout.score].bet_count = payout.total
    /\ Len(bets[payout.score]) = MaxDeposits
    /\ betting[payout.score].total_betted_bch > 0

\* C30: simulate_deposit validates the deposit against the ticket value:
\* a deposit that an outcome has accepted (its bets_received has grown) was
\* not smaller than required_bch_for_ticket = ticket_value_usd / rate, and
\* was credited floor(deposited_bch_amount / required_bch_for_ticket)
\* tickets, never more.  The deposit, in satoshis, is what total_betted_bch
\* has grown by; the rate is the latest BCHRate after the call.
C30_DepositValidatedAgainstTicketValue ==
    [][\A s \in Scores :
          Len(betting'[s].bets_received) > Len(betting[s].bets_received) =>
              LET deposit == betting'[s].total_betted_bch - betting[s].total_betted_bch
                  credited == betting'[s].bet_count - betting[s].bet_count
              IN /\ deposit * bch_rate'[1] >= SATOSHI_PER_BCH
                 /\ credited = (deposit * bch_rate'[1]) \div SATOSHI_PER_BCH]_vars

\* C24: a payout request for a match id that does not exist or for a
\* winning score that is no outcome of the match returns False, computes
\* nothing and changes nothing (bets and BCHRate rows); a
\* simulate_prediction request whose match/outcome pair does not exist is
\* answered 404 and changes neither the outcome nor the ledger.
C24_UnknownMatchOrOutcome ==
    /\ [][(payout' # payout /\ (~payout'.known \/ payout'.score \notin Scores)) =>
             /\ ~payout'.ok
             /\ payout'.total = 0
             /\ payout'.schedule = <<>>
             /\ payout'.payouts_to_addresses = <<>>
             /\ UNCHANGED <<betting, bch_rate>>]_vars
    /\ [][(/\ request.pc = "idle"
           /\ request'.requests = request.requests + 1
           /\ ~request'.found) =>
             /\ request'.status = 404
             /\ request'.pc = "idle"
             /\ UNCHANGED <<bet_count, last_monitored_tx_hash,
                            real_bet_transactions, simulated>>]_vars

\* both not-found answers, given while the outcomes hold bets
C24_Witness ==
    /\ payout.called /\ ~payout.known /\ ~payout.ok
    /\ betting["1-0"].bet_count > 0
    /\ request.requests = 2 /\ ~request.found /\ request.status = 404
    /\ bet_count > 0 /\ simulated = 1

(***************************************************************************)
(* SpecAdmin: the rows of RealBetTransaction with their fields, under the  *)
(* passes of process_new_transactions_chaingraph and the Django admin      *)
(* site, where Match, ScoreOutcome and RealBetTransaction are registered.  *)
(* o1 and o2 are the outcomes of match m1, o3 that of match m2.            *)
(***************************************************************************)
MaxCreations == 2

Matches == {"m1", "m2"}

match(o) == IF o \in {"o1", "o2"} THEN "m1" ELSE "m2"

\* tx['block_time'] of the confirmed transaction, in seconds
block_time(tx_hash) ==
    CASE tx_hash = "h1" -> 1
      [] tx_hash = "h2" -> 2
      [] OTHER          -> 3

\* the row RealBetTransaction.objects.create(...) inserts for a candidate
\* of the outcome
CreatedRow(o, tx_hash) ==
    [transaction_hash |-> tx_hash,
     bch_address      |-> bch_address(o),
     amount_satoshi   |-> amount_satoshi(tx_hash, bch_address(o)),
     outcome          |-> o,
     timestamp        |-> block_time(tx_hash)]

\* RealBetTransaction.objects.filter(transaction_hash=tx_hash).exists(),
\* for every hash, in the form the loop reads it
RowsThere == [h \in Hashes |-> IF transactions[h] = <<>> THEN None ELSE "row"]

\* One pass of process_new_transactions_chaingraph on outcome o, on the
\* confirmed candidates txs, with the rate of the environment.
AdminReconcile(o, txs, rate) ==
    /\ o \in score_outcomes
    /\ LET cursor == outcomes[o].last_monitored_tx_hash
           st == LoopFrom(o, cursor, txs, 1,
                          [bet_count |-> outcomes[o].bet_count, ledger |-> RowsThere,
                           new_tx_found_for_outcome |-> FALSE,
                           newest_tx_hash_seen |-> cursor, rate |-> rate])
           new == {h \in Hashes : RowsThere[h] = None /\ st.ledger[h] = o}
       IN /\ \A h \in new : creations[h] < MaxCreations
          /\ transactions' = [h \in Hashes |->
                                 IF h \in new THEN <<CreatedRow(o, h)>>
                                 ELSE transactions[h]]
          /\ creations' = [h \in Hashes |->
                              IF h \in new THEN creations[h] + 1 ELSE creations[h]]
          /\ outcomes' = [outcomes EXCEPT ![o] =
                 [bet_count |-> st.bet_count,
                  last_monitored_tx_hash |->
                      IF st.new_tx_found_for_outcome /\ st.newest_tx_hash_seen # cursor
                      THEN st.newest_tx_hash_seen ELSE cursor]]
    /\ UNCHANGED score_outcomes
    /\ UNCHANGED <<pass_vars, env_rate, events, ledger, run, web_vars, bet_vars, other_vars>>

\* the rows after the outcomes gone are deleted: on_delete=SET_NULL
OutcomeSetNull(gone) ==
    [h \in Hashes |->
        IF transactions[h] # <<>> /\ transactions[h][1].outcome \in gone
        THEN <<[transactions[h][1] EXCEPT !.outcome = None]>>
        ELSE transactions[h]]

\* the admin site deletes a ScoreOutcome
AdminDeleteOutcome(o) ==
    /\ o \in score_outcomes
    /\ score_outcomes' = score_outcomes \ {o}
    /\ transactions' = OutcomeSetNull({o})
    /\ UNCHANGED creations
    /\ UNCHANGED <<pass_vars, env_rate, events, task_vars, web_vars, bet_vars, other_vars>>

\* the admin site deletes a Match: its outcomes go with it, on_delete=CASCADE
AdminDeleteMatch(m) ==
    /\ \E o \in score_outcomes : match(o) = m
    /\ score_outcomes' = {o \in score_outcomes : match(o) # m}
    /\ transactions' = OutcomeSetNull({o \in score_outcomes : match(o) = m})
    /\ UNCHANGED creations
    /\ UNCHANGED <<pass_vars, env_rate, events, task_vars, web_vars, bet_vars, other_vars>>

\* the rows after the admin site deletes the RealBetTransaction of tx_hash
RowsAfterAdminDelete(tx_hash) == [transactions EXCEPT ![tx_hash] = <<>>]

\* The admin site deletes a RealBetTransaction: the ModelAdmin makes the
\* fields read-only and leaves the delete permission as it is.
AdminDeleteTransaction(tx_hash) ==
    /\ transactions[tx_hash] # <<>>
    /\ transactions' = RowsAfterAdminDelete(tx_hash)
    /\ UNCHANGED <<score_outcomes, creations>>
    /\ UNCHANGED <<pass_vars, env_rate, events, task_vars, web_vars, bet_vars, other_vars>>

NextAdmin ==
    \/ \E o \in Monitored : \E resp \in TaskResponses(o) : \E rate \in Rates :
          /\ resp.kind = "list"
          /\ \A i \in 1..Len(resp.txs) : resp.txs[i].confirmation = "height"
          /\ AdminReconcile(o, resp.txs, rate)
    \/ \E o \in Outcomes : AdminDeleteOutcome(o)
    \/ \E m \in Matches : AdminDeleteMatch(m)
    \/ \E tx_hash \in Hashes : AdminDeleteTransaction(tx_hash)

SpecAdmin == Init /\ [][NextAdmin]_vars

\* C25: a committed transaction is created once and is immutable afterwards:
\* no step changes the hash, the address, the amount or the timestamp of a
\* row or deletes the row; deleting its outcome or the outcome's match only
\* sets the outcome reference of the row to null; and no hash has a row
\* created for it twice.
C25_RowCreatedOnceAndImmutable ==
    [][\A h \in Hashes :
          /\ creations'[h] <= 1
          /\ transactions[h] # <<>> =>
                /\ transactions'[h] # <<>>
                /\ transactions'[h][1].transaction_hash = transactions[h][1].transaction_hash
                /\ transactions'[h][1].bch_address = transactions[h][1].bch_address
                /\ transactions'[h][1].amount_satoshi = transactions[h][1].amount_satoshi
                /\ transactions'[h][1].timestamp = transactions[h][1].timestamp
                /\ transactions'[h][1].outcome \in {transactions[h][1].outcome, None}]_vars

\* deleting an outcome or a match keeps every row and only sets outcome
\* references to null
C25_SetNullKeepsRows ==
    [][score_outcomes' # score_outcomes =>
          \A h \in Hashes :
             transactions[h] # <<>> =>
                /\ transactions'[h] # <<>>
                /\ [transactions'[h][1] EXCEPT !.outcome = None]
                       = [transactions[h][1] EXCEPT !.outcome = None]
                /\ transactions'[h][1].outcome \in {transactions[h][1].outcome, None}]_vars

\* a hash whose row was deleted in the admin site has a second row created
C25_RowCreatedTwice == \E h \in Hashes : creations[h] = 2

(***************************************************************************)
(* SpecRows: every way a RealBetTransaction row is created.  One process   *)
(* calls the three loops, one call after the other, on one candidate at a  *)
(* time, and the web process serves simulate_prediction requests.          *)
(***************************************************************************)
\* the request fails, or lists no or one candidate of any kind
RowResponses == {r \in Responses : Len(r.txs) <= 1}

NextRows ==
    \/ \E loop \in Loops, resp \in RowResponses :
           BeginPass(SeqWorker, loop, resp, "direct", FALSE)
    \/ Examine(SeqWorker, FALSE)
    \/ Save(SeqWorker)
    \/ Create(SeqWorker, FALSE, TRUE, FALSE)
    \/ Finish(SeqWorker, FALSE)
    \/ \E r \in Rates : RateUpdate(SeqWorker, r)
    \/ \E found \in BOOLEAN, rate \in {0} \cup Rates : SimulateBegin(found, rate)
    \/ SimulateSave
    \/ SimulateCreate

SpecRows == Init /\ [][NextRows]_vars

\* C26: every RealBetTransaction row has an amount of at least 1 satoshi and
\* was credited at least one ticket: a candidate of any of the three loops,
\* and a simulate_prediction request, is at the commit step (outcome.save(),
\* then the create) only with amount_satoshi >= 1 and num_tickets >= 1.
C26_RowsHaveAmountAndTicket ==
    /\ \A w \in Workers :
          pass[w].pc \in {"save", "create"} =>
             /\ output_value(pass[w].txs[pass[w].idx].tx_hash) >= 1
             /\ pass[w].num_tickets >= 1
    /\ request.pc \in {"save", "create"} =>
          /\ mock_amount_satoshi >= 1
          /\ request.num_tickets >= 1
    /\ \A h \in Hashes :
          real_bet_transactions[h] > 0 => output_value(h) >= 1 /\ credits[h] >= 1

\* the Blockchair loop has skipped the confirmed dust deposit h2 at rate 200,
\* with a row for h1 and a simulated row created before
C26_Witness ==
    /\ pass[SeqWorker].pc = "finish"
    /\ pass[SeqWorker].loop = "blockchair"
    /\ pass[SeqWorker].txs = <<[tx_hash |-> "h2", confirmation |-> "height"]>>
    /\ env_rate[SeqWorker] = 200
    /\ real_bet_transactions["h1"] = 1
    /\ real_bet_transactions["h2"] = 0
    /\ simulated = 1

(***************************************************************************)
(* SpecLive: monitor_bch_addresses_task with the adapter call of each      *)
(* iteration in two steps: the request is sent (requests.post, without a   *)
(* timeout argument), and the answer arrives.  The worker takes its own    *)
(* steps whenever it can; nothing makes the remote server answer.          *)
(***************************************************************************)
\* get_address_transactions_chaingraph(...): the request of the iteration
\* is sent and the worker waits in requests.post
TaskCall ==
    /\ run.pc = "running"
    /\ run.todo # <<>>
    /\ run' = [run EXCEPT !.pc = "calling"]
    /\ UNCHANGED <<pass_vars, env_rate, events, outcomes, ledger, web_vars, bet_vars,
                   admin_vars, other_vars>>

\* the answer arrives (a list, or an error that the adapter turns into
\* None, or an exception), and the rest of the iteration runs
TaskAnswer(o, resp) ==
    /\ run.pc = "calling"
    /\ o = Head(run.todo)
    /\ LET r == Reconciled(o, resp.txs, env_rate[SeqWorker])
       IN /\ IF resp.kind = "list" /\ resp.txs # <<>>
             THEN /\ outcomes' = [outcomes EXCEPT ![o] = r.outcome]
                  /\ ledger' = r.ledger
             ELSE UNCHANGED <<outcomes, ledger>>
          /\ run' = [run EXCEPT !.pc = "running",
                                !.todo = Remaining(run.todo, resp.kind),
                                !.reconciled = Append(@, o),
                                !.failed = IF resp.kind = "list" /\ resp.txs # <<>>
                                           THEN @ ELSE @ \cup {o}]
    /\ UNCHANGED <<pass_vars, env_rate, events, web_vars, bet_vars, admin_vars, other_vars>>

NextLive ==
    \/ \E order \in MonitoredOrders : TaskBegin(order)
    \/ TaskCall
    \/ \E o \in Monitored : \E resp \in TaskResponses(o) : TaskAnswer(o, resp)
    \/ TaskEnd
    \/ \E r \in Rates : run.pc = "idle" /\ RateUpdate(SeqWorker, r)

SpecLive == Init /\ [][NextLive]_vars /\ WF_vars(TaskCall) /\ WF_vars(TaskEnd)

\* C27: every run of monitor_bch_addresses_task that has started ends, and
\* with it the pass of every outcome: a pass cannot wait forever for an
\* adapter that does not answer.
C27_EveryPassEnds == (run.pc # "idle") ~> (run.pc = "idle")

\* the loops themselves are finite: every answer is followed by the end of
\* the iteration, the outcome leaves the list of the run
C27_IterationsAreFinite ==
    [][run.pc = "calling" /\ run'.pc # "calling" => Len(run'.todo) < Len(run.todo)]_vars

(***************************************************************************)
(* SpecRate: the BCHRate rows and the rate the passes read.  Worker        *)
(* processes run the monitor task (the Chaingraph loop) and the price      *)
(* task; the web process answers GET /bch-rate/; a BCHBettingSystem        *)
(* updates the rate; worker processes are restarted.                       *)
(***************************************************************************)
\* update_bch_price_task in worker w: the BCHRate row is created, then
\* os.environ['LAST_FETCHED_BCH_USD_RATE'] of the worker's process is set.
PriceTask(w, bch_usd_rate) ==
    /\ ~InFlight(w)
    /\ bch_rate' = <<bch_usd_rate>>
    /\ env_rate' = [env_rate EXCEPT ![w] = bch_usd_rate]
    /\ UNCHANGED <<db, pass, once_tasks, passes, credits, last_pass, events>>
    /\ UNCHANGED <<task_vars, web_vars, betting, payout, admin_vars, other_vars>>

\* BCHRateViewSet.list when there is no BCHRate row: the rate is fetched
\* and a row is created; no environment is written.
ListFallback(bch_usd_rate) ==
    /\ bch_rate = <<>>
    /\ bch_rate' = <<bch_usd_rate>>
    /\ UNCHANGED <<pass_vars, env_rate, events, task_vars, web_vars, betting, payout,
                   admin_vars, other_vars>>

\* a worker process that runs no task is stopped and started again: its
\* environment is the one it is started with
Restart(w) ==
    /\ ~InFlight(w)
    /\ env_rate' = [env_rate EXCEPT ![w] = 0]
    /\ UNCHANGED <<db, pass, once_tasks, passes, credits, last_pass, events>>
    /\ UNCHANGED <<task_vars, web_vars, bet_vars, admin_vars, other_vars>>

NextRate ==
    \/ \E w \in Workers, resp \in DepositResponses :
           BeginPass(w, "chaingraph", resp, "repeat", FALSE)
    \/ \E w \in Workers : Examine(w, FALSE)
    \/ \E w \in Workers : Save(w)
    \/ \E w \in Workers : Create(w, FALSE, TRUE, TRUE)
    \/ \E w \in Workers : Finish(w, FALSE)
    \/ \E w \in Workers, r \in Rates : PriceTask(w, r)
    \/ \E r \in Rates : ListFallback(r)
    \/ \E r \in Rates : RateCreate(r)
    \/ \E w \in Workers : Restart(w)

SpecRate == Init /\ [][NextRate]_vars

\* C28: the rate a pass uses is the latest stored snapshot: whenever a
\* BCHRate row exists and the loop body reads the rate for a candidate
\* (a confirmed, unrecorded candidate that pays the address), the rate it
\* reads is the rate of the most recently created BCHRate row.
C28_PassReadsLatestRate ==
    [][\A w \in Workers :
          (/\ pass[w].pc = "loop"
           /\ pass'[w] # pass[w]
           /\ Verdict(w) \in {"commit", "dust"}
           /\ bch_rate # <<>>)
              => env_rate[w] = bch_rate[1]]_vars

\* a pass credits tickets at a rate that no BCHRate row holds any more
C28_StaleRateCredited ==
    \E w \in Workers :
       /\ pass[w].pc = "save"
       /\ bch_rate # <<>>
       /\ pass[w].num_tickets
             # num_tickets(output_value(pass[w].txs[pass[w].idx].tx_hash), bch_rate[1])

(***************************************************************************)
(* SpecSame: the three loops as functions of what they are given: the      *)
(* outcome as stored, the rows, the rate, and a list of candidates, each   *)
(* with its hash and whether it is confirmed, told to each loop in the     *)
(* form its adapter uses.                                                  *)
(***************************************************************************)
NormalizedCandidates == [tx_hash : Hashes, confirmed : BOOLEAN]

\* how each adapter tells that a transaction is unconfirmed: Chaingraph by
\* a null block_height, the generic service by height 0, Blockchair by a
\* null block_id
WireMarker(loop, confirmed) ==
    IF confirmed THEN "height"
    ELSE IF loop = "generic" THEN "zero" ELSE "null"

\* the generic loop keeps the transactions that have an output to the
\* address
incoming_transactions(loop, txs) ==
    IF loop = "generic"
    THEN SelectSeq(txs, LAMBDA tx : output_value(tx.tx_hash) > 0)
    ELSE txs

\* the for loop of a processing function from candidate i on; st holds
\* outcome.bet_count, the hashes with a row, new_tx_found_for_outcome,
\* newest_tx_hash_seen and whether an exception has left the function.
\* sent: group_send of the Blockchair loop returns.
RECURSIVE ProcessFrom(_, _, _, _, _, _, _)
ProcessFrom(loop, cursor, rate, txs, i, st, sent) ==
    IF i > Len(txs) THEN st
    ELSE LET tx_hash == txs[i].tx_hash
             tickets == num_tickets(output_value(tx_hash), rate)
         IN IF tx_hash = cursor THEN st
            ELSE IF \/ tx_hash \in st.rows
                    \/ IsUnconfirmed(loop, WireMarker(loop, txs[i].confirmed))
                    \/ ~(output_value(tx_hash) > 0)
                    \/ ~(tickets > 0)
                 THEN ProcessFrom(loop, cursor, rate, txs, i + 1, st, sent)
                 ELSE LET committed ==
                              [st EXCEPT !.bet_count = @ + tickets,
                                         !.rows = @ \cup {tx_hash},
                                         !.new_tx_found_for_outcome = TRUE,
                                         !.newest_tx_hash_seen = tx_hash]
                      IN IF loop = "blockchair" /\ ~sent
                         THEN [committed EXCEPT !.raised = TRUE]
                         ELSE ProcessFrom(loop, cursor, rate, txs, i + 1, committed, sent)

\* what a processing function leaves: bet_count, the hashes with a row and
\* the cursor
Processed(loop, start, rate, txs, sent) ==
    LET st == ProcessFrom(loop, start.cursor, rate, incoming_transactions(loop, txs), 1,
                          [bet_count |-> start.bet_count, rows |-> start.rows,
                           new_tx_found_for_outcome |-> FALSE,
                           newest_tx_hash_seen |-> start.cursor, raised |-> FALSE],
                          sent)
    IN [bet_count |-> st.bet_count,
        rows      |-> st.rows,
        cursor    |-> IF /\ ~st.raised
                         /\ st.new_tx_found_for_outcome
                         /\ st.newest_tx_hash_seen # start.cursor
                      THEN st.newest_tx_hash_seen ELSE start.cursor]

\* the outcome and the rows before the pass: the hashes with a row pay the
\* address, each was credited one ticket, and the cursor is one of them or
\* was never written
StartStates ==
    {[bet_count |-> Cardinality(rows), rows |-> rows, cursor |-> cursor] :
        <<rows, cursor>> \in
            {rc \in (SUBSET {h \in Hashes : output_value(h) > 0}) \X (Hashes \cup {None}) :
                rc[2] \in rc[1] \cup {None}}}

\* the three functions are called, once, on the same outcome, rows, rate
\* and candidates
Compare(start, rate, txs, sent) ==
    /\ compared = <<>>
    /\ compared' = <<[start |-> start, rate |-> rate, txs |-> txs, sent |-> sent,
                      result |-> [loop \in Loops |->
                                     Processed(loop, start, rate, txs, sent)]]>>
    /\ UNCHANGED <<pass_vars, env_rate, events, task_vars, web_vars, bet_vars,
                   admin_vars, deposited, schedule_vars>>

NextSame ==
    \E start \in StartStates, rate \in {0} \cup Rates,
       txs \in SeqsUpTo(NormalizedCandidates, MaxLen), sent \in BOOLEAN :
          Compare(start, rate, txs, sent)

SpecSame == Init /\ [][NextSame]_vars

\* C29: the three processing loops are interchangeable: on the same outcome
\* state, the same rate and the same list of normalized candidates they end
\* with the same bet_count, the same hashes committed and the same cursor.
C29_LoopsInterchangeable ==
    compared # <<>> =>
        \A a, b \in Loops : compared[1].result[a] = compared[1].result[b]

\* as long as group_send returns, the three loops end alike
C29_AlikeWhenSent ==
    (compared # <<>> /\ compared[1].sent) =>
        \A a, b \in Loops : compared[1].result[a] = compared[1].result[b]

\* C31: simulate_deposit changes nothing when it rejects: a call that
\* returns False (unknown match or outcome, rate <= 0, deposit worth less
\* than one ticket) leaves bets, bet_count, total_betted_bch and
\* bets_received of every outcome as they were; a call that returns True
\* changes only the outcome it names.
C31_RejectedDepositChangesNothing ==
    [][/\ ~deposited'.ok => (betting' = betting /\ bets' = bets)
       /\ (deposited'.ok /\ betting' # betting) =>
             \A s \in Scores \ {deposited'.score} : betting'[s] = betting[s]]_vars

\* a deposit for a known outcome was rejected at a positive rate, while the
\* outcomes hold bets
C31_Witness ==
    /\ deposited.called /\ ~deposited.ok
    /\ deposited.known /\ deposited.score \in Scores
    /\ bch_rate # <<>> /\ bch_rate[1] = 250
    /\ betting["1-0"].bet_count > 0
    /\ betting["0-1"].bet_count = 0
    /\ ~payout.called

\* the sum of num_tickets, and of amount_bch, over the bets i.. of a list
RECURSIVE TicketSum(_, _)
TicketSum(bets_received, i) ==
    IF i > Len(bets_received) THEN 0
    ELSE bets_received[i].num_tickets + TicketSum(bets_received, i + 1)

RECURSIVE AmountSum(_, _)
AmountSum(bets_received, i) ==
    IF i > Len(bets_received) THEN 0
    ELSE bets_received[i].amount_bch + AmountSum(bets_received, i + 1)

\* the exact sum of the payouts of the addresses S
RECURSIVE PayoutSum(_, _)
PayoutSum(amounts, S) ==
    IF S = {} THEN Dec(0, 0)
    ELSE LET a == CHOOSE x \in S : TRUE
         IN DecAddAt(amounts[a], PayoutSum(amounts, S \ {a}), DECIMAL_PREC)

\* every outcome's bet_count is the sum of num_tickets over its
\* bets_received and over the bets of the match for it, and its
\* total_betted_bch the sum of their amounts
C32_CountersMatchBets ==
    \A s \in Scores :
        /\ betting[s].bet_count = TicketSum(betting[s].bets_received, 1)
        /\ betting[s].bet_count = TicketSum(bets[s], 1)
        /\ betting[s].total_betted_bch = AmountSum(betting[s].bets_received, 1)
        /\ betting[s].total_betted_bch = AmountSum(bets[s], 1)

\* C32: after any sequence of simulate_deposit and
\* determine_winner_and_payout calls, every outcome's bet_count equals the
\* sum of num_tickets over its bets_received and over the bets of the match
\* for that outcome, its total_betted_bch equals the sum of their amounts,
\* and for a winning outcome with tickets the payouts, before any rounding
\* for display, sum to the prize pool.
C32_CountersAndPayoutsAddUp ==
    /\ C32_CountersMatchBets
    /\ (payout.called /\ payout.ok /\ payout.total >= 1) =>
          DecSame(PayoutSum(payout.payouts_to_addresses,
                            DOMAIN payout.payouts_to_addresses),
                  payout.prize_pool_bch)

\* C33: no lost update between simulate_prediction and the monitor, however
\* a request and a pass on the outcome interleave: the save of each adds its
\* own tickets to the stored bet_count, so that bet_count ends as the
\* initial value plus the tickets of both, and no save of a request writes
\* the cursor, nor the cursor save of a pass the bet_count.
C33_NoLostUpdate ==
    [][/\ \A w \in Workers :
             /\ (pass[w].pc = "save" /\ pass'[w].pc = "create") =>
                    /\ bet_count' = bet_count + pass[w].num_tickets
                    /\ last_monitored_tx_hash' = last_monitored_tx_hash
             /\ (pass[w].pc = "finish" /\ pass'[w].pc = "idle") =>
                    bet_count' = bet_count
       /\ (request.pc = "save" /\ request'.pc = "create") =>
             /\ bet_count' = bet_count + request.num_tickets
             /\ last_monitored_tx_hash' = last_monitored_tx_hash]_vars

\* a request has written back the cursor it loaded, over the cursor a pass
\* wrote meanwhile
C33_CursorOverwritten ==
    /\ request.pc = "create"
    /\ pass[SeqWorker].pc = "idle"
    /\ real_bet_transactions["h1"] = 1
    /\ last_monitored_tx_hash = None

\* how often tickets were added to bet_count, and the rows there are: for
\* the hashes of the chain and for the simulated ones
TicketAdditions ==
    credits["h1"] + credits["h2"] + credits["h3"]
        + simulated + (IF request.pc = "create" THEN 1 ELSE 0)

LedgerRows ==
    real_bet_transactions["h1"] + real_bet_transactions["h2"]
        + real_bet_transactions["h3"] + simulated

\* a change of the rate changes neither bet_count nor the rows, and tickets
\* are added for a hash only while it has no row
C34_CommittedCreditIsFinal ==
    [][/\ env_rate' # env_rate =>
             (bet_count' = bet_count /\ real_bet_transactions' = real_bet_transactions)
       /\ \A h \in Hashes :
             credits'[h] > credits[h] => real_bet_transactions[h] = 0]_vars

\* a candidate goes to the commit step only when it is worth a ticket at
\* the rate the pass reads then
C34_DustNeedsATicket ==
    [][\A w \in Workers :
          (pass[w].pc = "loop" /\ pass'[w].pc = "save") =>
              /\ pass'[w].num_tickets
                     = num_tickets(output_value(pass[w].txs[pass[w].idx].tx_hash),
                                   env_rate[w])
              /\ pass'[w].num_tickets >= 1]_vars

\* C34: the ledger is consistent with the counter in every reachable state:
\* tickets have been added to bet_count exactly once for each
\* RealBetTransaction row, with the tickets computed when the row was
\* committed; a later change of the rate never changes the credit of a
\* committed hash; and a candidate skipped as dust is committed by a later
\* pass only if it is worth at least one ticket at that pass's rate.
C34_LedgerConsistentWithCounter ==
    /\ [](\A h \in Hashes : credits[h] = real_bet_transactions[h])
    /\ [](TicketAdditions = LedgerRows)
    /\ C34_CommittedCreditIsFinal
    /\ C34_DustNeedsATicket

(***************************************************************************)
(* SpecSchedule: the Task rows of django-background-tasks.  Server          *)
(* processes load the app (ApiConfig.ready()), statement by statement, and *)
(* `manage.py schedule_tasks` is run.                                      *)
(***************************************************************************)
MaxStarts   == 2
MaxCommands == 2

price_task   == "api.tasks.update_bch_price_task"
monitor_task == "api.tasks.monitor_bch_addresses_task"

\* a process is started: Django calls ApiConfig.ready()
ReadyBegin(p) ==
    /\ starting[p].pc \in {"none", "done"}
    /\ starting[p].starts < MaxStarts
    /\ starting' = [starting EXCEPT ![p] =
           [pc |-> "price_exists", exists |-> FALSE, starts |-> @.starts + 1]]
    /\ UNCHANGED task_rows
    /\ UNCHANGED <<pass_vars, env_rate, events, task_vars, web_vars, bet_vars,
                   admin_vars, compared, deposited>>

\* `if not Task.objects.filter(task_name=...).exists():`
ReadyExists(p) ==
    /\ starting[p].pc \in {"price_exists", "monitor_exists"}
    /\ LET name == IF starting[p].pc = "price_exists" THEN price_task ELSE monitor_task
       IN starting' = [starting EXCEPT
              ![p].exists = task_rows[name] > 0,
              ![p].pc = IF starting[p].pc = "price_exists"
                        THEN "price_create" ELSE "monitor_create"]
    /\ UNCHANGED task_rows
    /\ UNCHANGED <<pass_vars, env_rate, events, task_vars, web_vars, bet_vars,
                   admin_vars, compared, deposited>>

\* the rows after Task.objects.create(task_name=name, ...): the Task model
\* has no unique constraint on task_name
RowsAfterTaskCreate(name) == [task_rows EXCEPT ![name] = @ + 1]

\* Task.objects.create(...) if the test found no row; the else branch only
\* logs
ReadyCreate(p) ==
    /\ starting[p].pc \in {"price_create", "monitor_create"}
    /\ LET name == IF starting[p].pc = "price_create" THEN price_task ELSE monitor_task
       IN task_rows' = IF starting[p].exists THEN task_rows
                       ELSE RowsAfterTaskCreate(name)
    /\ starting' = [starting EXCEPT
           ![p].pc = IF starting[p].pc = "price_create"
                     THEN "monitor_exists" ELSE "done"]
    /\ UNCHANGED <<pass_vars, env_rate, events, task_vars, web_vars, bet_vars,
                   admin_vars, compared, deposited>>

\* manage.py schedule_tasks: Command.handle calls the two decorated task
\* functions; each call stores one more Task row
CommandHandle ==
    /\ task_rows[price_task] + task_rows[monitor_task] < 2 * (MaxCommands + 1)
    /\ task_rows' = [n \in TaskNames |-> task_rows[n] + 1]
    /\ UNCHANGED starting
    /\ UNCHANGED <<pass_vars, env_rate, events, task_vars, web_vars, bet_vars,
                   admin_vars, compared, deposited>>

NextSchedule ==
    \/ \E p \in Processes : ReadyBegin(p)
    \/ \E p \in Processes : ReadyExists(p)
    \/ \E p \in Processes : ReadyCreate(p)
    \/ CommandHandle

SpecSchedule == Init /\ [][NextSchedule]_vars

\* C35: task scheduling is idempotent: after any number of ApiConfig.ready()
\* invocations and schedule_tasks runs, one after the other or from
\* processes that start at the same time, there is at most one Task row
\* for update_bch_price_task and at most one for monitor_bch_addresses_task.
C35_SchedulingIdempotent == \A n \in TaskNames : task_rows[n] <= 1

\* two processes that started together have both created both rows
C35_RowsFromARace ==
    /\ task_rows[monitor_task] = 2
    /\ task_rows[price_task] = 2
    /\ \A p \in Processes : starting[p].pc = "done" /\ starting[p].starts = 1

(***************************************************************************)
(* C36 - One pass per monitored outcome.  Within one run of                *)
(* monitor_bch_addresses_task every outcome that has a bch_address is      *)
(* reconciled exactly once, one after the other; an outcome without an     *)
(* address is never reconciled; and an exception raised by the pass of an  *)
(* outcome is caught: the run goes on with the next outcome, and no other  *)
(* outcome's bet_count, rows or cursor change.                             *)
(***************************************************************************)
\* the outcomes the run has gone through, each of them once
C36_OncePerRun ==
    /\ \A i, j \in 1..Len(run.reconciled) :
           i # j => run.reconciled[i] # run.reconciled[j]
    /\ \A i \in 1..Len(run.reconciled) : bch_address(run.reconciled[i]) # None
    /\ (run.pc = "idle" /\ run.runs > 0)
           => {run.reconciled[i] : i \in 1..Len(run.reconciled)}
                  = {o \in Outcomes : bch_address(o) # None}

C36_EachOutcomeOnceFailuresCaught ==
    /\ []C36_OncePerRun
    /\ [][\A o \in Outcomes :
             /\ bch_address(o) = None => outcomes'[o] = outcomes[o]
             /\ (run.pc = "running" /\ run'.reconciled # run.reconciled)
                    => /\ run.todo # <<>>
                       /\ run'.reconciled = Append(run.reconciled, Head(run.todo))
             /\ (o \in run'.raised /\ o \notin run.raised)
                    => /\ run'.pc = "running"
                       /\ run'.todo = Tail(run.todo)
                       /\ \A other \in Outcomes \ {o} :
                              outcomes'[other] = outcomes[other]
                       /\ \A h \in Hashes :
                              ledger'[h] # ledger[h]
                                  => ledger[h] = None /\ ledger'[h] = o]_vars

\* a run is over in which the pass of the first outcome raised after it
\* had committed a transaction, and the pass of the second outcome
\* committed one and wrote its cursor
C36_Witness ==
    /\ run.pc = "idle" /\ run.runs = 1
    /\ Len(run.reconciled) = 2
    /\ run.raised = {run.reconciled[1]}
    /\ outcomes[run.reconciled[1]].bet_count > 0
    /\ outcomes[run.reconciled[1]].last_monitored_tx_hash = None
    /\ \E h \in Hashes : ledger[h] = run.reconciled[1]
    /\ outcomes[run.reconciled[2]].bet_count > 0
    /\ outcomes[run.reconciled[2]].last_monitored_tx_hash # None

(***************************************************************************)
(* C37 - A pass reconciles only its own outcome.  A pass for outcome O     *)
(* creates rows only for O and O.bch_address, counts only the output that  *)
(* pays O.bch_address, and leaves bet_count and cursor of every other      *)
(* outcome unchanged, so that passes on different outcomes commute.        *)
(***************************************************************************)
\* process_new_transactions_chaingraph(outcome o) on the list txs, as a
\* function of the outcomes and rows s it finds
PassOn(s, o, txs, rate) ==
    LET cursor == s.outcomes[o].last_monitored_tx_hash
        st == LoopFrom(o, cursor, txs, 1,
                       [bet_count |-> s.outcomes[o].bet_count, ledger |-> s.ledger,
                        new_tx_found_for_outcome |-> FALSE,
                        newest_tx_hash_seen |-> cursor, rate |-> rate])
    IN IF txs = <<>> THEN s
       ELSE [outcomes |-> [s.outcomes EXCEPT ![o] =
                [bet_count |-> st.bet_count,
                 last_monitored_tx_hash |->
                     IF st.new_tx_found_for_outcome /\ st.newest_tx_hash_seen # cursor
                     THEN st.newest_tx_hash_seen ELSE cursor]],
             ledger |-> st.ledger]

\* the lists of confirmed transactions the adapter can return for the
\* address of o
ConfirmedLists(o) ==
    {r.txs : r \in {t \in TaskResponses(o) :
                       /\ t.kind = "list"
                       /\ \A i \in 1..Len(t.txs) : t.txs[i].confirmation = "height"}}

\* the tickets of the outputs that pay the address of o, over the hashes
\* of the set new
RECURSIVE CreditOf(_, _, _)
CreditOf(new, o, rate) ==
    IF new = {} THEN 0
    ELSE LET h == CHOOSE x \in new : TRUE
         IN num_tickets(amount_satoshi(h, bch_address(o)), rate)
                + CreditOf(new \ {h}, o, rate)

\* the iteration of the monitor task on outcome o creates rows for o only,
\* of transactions that pay its address, adds the tickets of those outputs
\* and of nothing else, and changes no other outcome
C37_OtherOutcomesUntouched ==
    [][\A o \in Outcomes :
          (run.pc = "running" /\ run'.reconciled = Append(run.reconciled, o))
             => LET new == {h \in Hashes : ledger'[h] # ledger[h]}
                IN /\ \A other \in Outcomes \ {o} : outcomes'[other] = outcomes[other]
                   /\ \A h \in new : /\ ledger[h] = None
                                     /\ ledger'[h] = o
                                     /\ amount_satoshi(h, bch_address(o)) > 0
                   /\ outcomes'[o].bet_count
                          = outcomes[o].bet_count
                              + CreditOf(new, o, env_rate[SeqWorker])]_vars

\* from the outcomes and rows of the state, the pass on o1 followed by the
\* pass on o2 leaves what the pass on o2 followed by the pass on o1 leaves
C37_PassesCommuteNow ==
    LET s == [outcomes |-> outcomes, ledger |-> ledger]
        rate == env_rate[SeqWorker]
    IN \A txs1 \in ConfirmedLists("o1"), txs2 \in ConfirmedLists("o2") :
          PassOn(PassOn(s, "o1", txs1, rate), "o2", txs2, rate)
              = PassOn(PassOn(s, "o2", txs2, rate), "o1", txs1, rate)

C37_PassReconcilesOwnOutcome ==
    /\ C37_OtherOutcomesUntouched
    /\ [](run.pc = "idle" => C37_PassesCommuteNow)

\* passes on lists that have no transaction in common commute
C37_DisjointPassesCommute ==
    LET s == [outcomes |-> outcomes, ledger |-> ledger]
        rate == env_rate[SeqWorker]
    IN run.pc = "idle" =>
          \A txs1 \in ConfirmedLists("o1"), txs2 \in ConfirmedLists("o2") :
             (\A i \in 1..Len(txs1), j \in 1..Len(txs2) :
                  txs1[i].tx_hash # txs2[j].tx_hash)
                => PassOn(PassOn(s, "o1", txs1, rate), "o2", txs2, rate)
                      = PassOn(PassOn(s, "o2", txs2, rate), "o1", txs1, rate)

\* a run has given the transaction that pays both addresses to the outcome
\* it reconciled first; the other outcome has no ticket
C37_SharedTransactionTaken ==
    /\ run.pc = "idle" /\ run.runs = 1
    /\ ledger["h2"] = "o1"
    /\ outcomes["o1"].bet_count > 0
    /\ outcomes["o2"].bet_count = 0
    /\ "o2" \notin run.failed

====
